---------------------------- MODULE Spec2Model ----------------------------
(***************************************************************************)
(* A model of tools/idf_py_actions/tools.py: the CMakeCache helpers        *)
(* (_strip_quotes, _parse_cmakecache, _new_cmakecache_entries), the target *)
(* cross-check (_guess_or_check_idf_target) and ensure_build_directory.    *)
(*                                                                         *)
(* A Python str is a sequence of symbols.  A symbol is one of the          *)
(* characters the code tells apart (the two quotes, the blank, the line    *)
(* feed, '=', ':', '#', '/') or an opaque run of other characters ("a",    *)
(* "IDF_TARGET", "esp32"), which no regular expression of the file splits. *)
(***************************************************************************)
EXTENDS Integers, Sequences, FiniteSets, TLC

DQ == "\""
SQ == "'"
SP == " "
NL == "\n"
EQ == "="
COLON == ":"
HASH == "#"
SLASH == "/"

\* Python's None, as the result of a str-valued call: no string holds the symbol "None".
None == <<"None">>

\* ---------------------------------------------------------------- bounds
\* Longest value handed to _strip_quotes in StripSpec.
MaxLen == 3
\* Most lines of a cache file, and most proposed entries, in CacheSpec.
MaxLines == 2
MaxEntries == 2
\* Most lines of an sdkconfig file in TargetSpec.
MaxSdkLines == 1
\* Most sessions (invocations of ensure_build_directory) on one build directory in Spec.
MaxSessions == 2

\* ---------------------------------------------------------------- strings
\* All sequences over S of length at most n.
SeqsUpTo(S, n) == UNION {[1..k -> S] : k \in 0..n}

\* str.rstrip(): the string without its trailing whitespace.
IsSpace(c) == c \in {SP, NL}

rstrip(s) ==
    LET keep == {i \in 1..Len(s) : ~IsSpace(s[i])}
        n == IF keep = {} THEN 0 ELSE CHOOSE i \in keep : \A j \in keep : j <= i
    IN SubSeq(s, 1, n)

\* What '$' leaves to the pattern: Python's '$' matches at the end of the string
\* and just before a line feed that ends the string.
BeforeDollar(s) ==
    IF Len(s) > 0 /\ s[Len(s)] = NL THEN SubSeq(s, 1, Len(s) - 1) ELSE s

\* s is q(.*)q for the quote q; '.' matches no line feed.
Wrapped(s, q) == Len(s) >= 2 /\ s[1] = q /\ s[Len(s)] = q

Inner(s) == SubSeq(s, 2, Len(s) - 1)

\* A mutant of _strip_quotes: rstrip() is applied to the value before the match
\* and not to the group, so whitespace inside the quotes survives.
strip_quotes_rstrip_first(value) ==
    LET core == rstrip(BeforeDollar(value))
    IN IF \E i \in 1..Len(core) : core[i] = NL THEN None
       ELSE IF Wrapped(core, DQ) THEN Inner(core)
       ELSE IF Wrapped(core, SQ) THEN Inner(core)
       ELSE core

\* _strip_quotes: re.match(r"^\"(.*)\"$|^'(.*)'$|^(.*)$", value), the one group
\* that took part, rstrip()ped; None when nothing matches (a line feed inside).
_strip_quotes(value) ==
    LET core == BeforeDollar(value)
    IN IF \E i \in 1..Len(core) : core[i] = NL THEN None
       ELSE IF Wrapped(core, DQ) THEN rstrip(Inner(core))
       ELSE IF Wrapped(core, SQ) THEN rstrip(Inner(core))
       ELSE rstrip(core)


\* ---------------------------------------------------------------- CMakeCache.txt
\* A file: whether it exists and, when it does, its lines in order, each with the
\* line feed that ends it (iterating a text file yields the lines that way).
NoFile == [exists |-> FALSE, lines |-> <<>>]

File(lines) == [exists |-> TRUE, lines |-> lines]

\* The first index from `from` on whose symbol is in S; Len(s) + 1 when there is none.
FirstIn(s, from, S) ==
    LET hits == {i \in from..Len(s) : s[i] \in S}
    IN IF hits = {} THEN Len(s) + 1 ELSE CHOOSE i \in hits : \A j \in hits : i <= j

\* re.match(r'^([^#/:=]+):([^:=]+)=(.*)\n$', line): group 1 is the longest run
\* without '#', '/', ':' and '=', and ':' must follow it; group 2 is the longest
\* run without ':' and '=', and '=' must follow it; group 3 runs to the line feed
\* that ends the line.  [ok, name, value]: whether the line matched, groups 1 and 3.
cmakecache_line(line) ==
    LET i == FirstIn(line, 1, {HASH, SLASH, COLON, EQ})
        j == FirstIn(line, i + 1, {COLON, EQ})
        n == Len(line)
        ok == /\ 1 < i /\ i <= n /\ line[i] = COLON
              /\ i + 1 < j /\ j <= n /\ line[j] = EQ
              /\ j < n /\ line[n] = NL
              /\ \A k \in (j + 1)..(n - 1) : line[k] # NL
    IN [ok |-> ok,
        name |-> IF ok THEN SubSeq(line, 1, i - 1) ELSE <<>>,
        value |-> IF ok THEN SubSeq(line, j + 1, n - 1) ELSE <<>>]

\* A dict: a function from its keys.  d[key] = value, as the assignment does it.
EmptyDict == [k \in {} |-> <<>>]

DictSet(d, key, value) ==
    [k \in DOMAIN d \cup {key} |-> IF k = key THEN value ELSE d[k]]

\* dict.get(key): None for a missing key.
DictGet(d, key) == IF key \in DOMAIN d THEN d[key] ELSE None

RECURSIVE ParseLines(_, _, _)
ParseLines(lines, k, result) ==
    IF k > Len(lines) THEN result
    ELSE LET m == cmakecache_line(lines[k])
         IN ParseLines(lines, k + 1,
                       IF m.ok THEN DictSet(result, m.name, m.value) ELSE result)

\* _parse_cmakecache: the dict name -> value of the lines that match, a later
\* line overwriting an earlier one of the same name; the type is dropped.
_parse_cmakecache(file) == ParseLines(file.lines, 1, EmptyDict)

\* entry.split('=', 1): the entry cut at its first '='.
SplitEntry(entry) ==
    LET i == FirstIn(entry, 1, {EQ})
    IN [key |-> SubSeq(entry, 1, i - 1), value |-> SubSeq(entry, i + 1, Len(entry))]

\* A mutant of the loop: the proposed value is compared as given, not de-quoted.
RECURSIVE AnyEntryDiffersRaw(_, _, _)
AnyEntryDiffersRaw(current_cache, new_cache_entries, k) ==
    IF k > Len(new_cache_entries) THEN FALSE
    ELSE LET e == SplitEntry(new_cache_entries[k])
             current_value == DictGet(current_cache, e.key)
         IN IF current_value = None \/ e.value # current_value
            THEN TRUE
            ELSE AnyEntryDiffersRaw(current_cache, new_cache_entries, k + 1)

\* The loop of _new_cmakecache_entries from entry k on: True at the first entry
\* whose key is missing or whose de-quoted value is not the stored one.
RECURSIVE AnyEntryDiffers(_, _, _)
AnyEntryDiffers(current_cache, new_cache_entries, k) ==
    IF k > Len(new_cache_entries) THEN FALSE
    ELSE LET e == SplitEntry(new_cache_entries[k])
             current_value == DictGet(current_cache, e.key)
         IN IF current_value = None \/ _strip_quotes(e.value) # current_value
            THEN TRUE
            ELSE AnyEntryDiffers(current_cache, new_cache_entries, k + 1)

\* A mutant of _new_cmakecache_entries: it runs that loop.
new_cmakecache_entries_raw(cache_file, new_cache_entries) ==
    IF ~cache_file.exists THEN TRUE
    ELSE IF new_cache_entries # <<>>
         THEN AnyEntryDiffersRaw(_parse_cmakecache(cache_file), new_cache_entries, 1)
         ELSE FALSE

\* A mutant of _new_cmakecache_entries: a missing file asks for nothing by itself.
new_cmakecache_entries_needs_file(cache_file, new_cache_entries) ==
    /\ cache_file.exists
    /\ new_cache_entries # <<>>
    /\ AnyEntryDiffers(_parse_cmakecache(cache_file), new_cache_entries, 1)

\* _new_cmakecache_entries: True when the file is missing; else whether some
\* proposed entry would change the parsed cache.
_new_cmakecache_entries(cache_file, new_cache_entries) ==
    IF ~cache_file.exists THEN TRUE
    ELSE IF new_cache_entries # <<>>
         THEN AnyEntryDiffers(_parse_cmakecache(cache_file), new_cache_entries, 1)
         ELSE FALSE


\* ---------------------------------------------------------------- sdkconfig
\* The longest prefix of s without the symbol c, as a length.
PrefixWithout(s, c) == FirstIn(s, 1, {c}) - 1

\* re.match(r'^KEY="?([^"]*)"?$', line) for one line: after KEY= an optional
\* quote, the longest run without a quote (a line feed is in that class), an
\* optional quote, and the end of the line or the line feed before it.
\* [ok, value]: whether the line matched, and group 1.
sdkconfig_line(line, key) ==
    LET r0 == SubSeq(line, 3, Len(line))
        r == IF Len(r0) > 0 /\ r0[1] = DQ THEN Tail(r0) ELSE r0
        p == PrefixWithout(r, DQ)
        rest == SubSeq(r, p + 1, Len(r))
        ok == /\ Len(line) >= 2 /\ line[1] = key /\ line[2] = EQ
              /\ rest \in {<<>>, <<DQ>>, <<DQ, NL>>}
    IN [ok |-> ok, value |-> IF ok THEN SubSeq(r, 1, p) ELSE <<>>]

RECURSIVE LastValue(_, _, _, _)
LastValue(lines, key, k, value) ==
    IF k > Len(lines) THEN value
    ELSE LET m == sdkconfig_line(lines[k], key)
         IN LastValue(lines, key, k + 1, IF m.ok THEN m.value ELSE value)

\* get_sdkconfig_value: None when the file is missing or holds no line for the
\* key, else the value of the last such line.
get_sdkconfig_value(sdkconfig_file, key) ==
    IF ~sdkconfig_file.exists THEN None
    ELSE LastValue(sdkconfig_file.lines, key, 1, None)

\* get_target(path, sdkconfig_filename), for the file of that name.
get_target(sdkconfig_file) == get_sdkconfig_value(sdkconfig_file, "CONFIG_IDF_TARGET")

\* ---------------------------------------------------------------- target check
\* Python's truth of an Optional[str]: None and '' are false.
Truthy(v) == v # None /\ v # <<>>

\* The FatalErrors of _guess_or_check_idf_target: the values the message is
\* formatted with and the commands it tells the user to run.
EnvVsConfig(t_conf, t_env) ==
    [kind |-> "env_vs_config", values |-> <<t_conf, t_env>>, remedies |-> {"set-target"}]

EnvVsCache(t_env, t_cache) ==
    [kind |-> "env_vs_cache", values |-> <<t_env, t_cache>>, remedies |-> {"fullclean"}]

\* A mutant of CacheVsConfig: the message offers fullclean only.
cache_vs_config_fullclean_only(t_conf, t_cache) ==
    [kind |-> "cache_vs_config", values |-> <<t_conf, t_cache>>,
     remedies |-> {"fullclean"}]

CacheVsConfig(t_conf, t_cache) ==
    [kind |-> "cache_vs_config", values |-> <<t_conf, t_cache>>,
     remedies |-> {"fullclean", "set-target"}]

\* A mutant of _guess_or_check_idf_target: with an environment target, the cache
\* is cross-checked before the sdkconfig.
guess_or_check_cache_first(sdkconfig, sdkconfig_defaults, env, cache, define_cache_entry) ==
    LET from_sdkconfig == get_target(sdkconfig)
        from_defaults == get_target(sdkconfig_defaults)
        from_cache == DictGet(cache, <<"IDF_TARGET">>)
        guessed == IF Truthy(from_sdkconfig) THEN from_sdkconfig ELSE from_defaults
    IN IF DOMAIN cache = {} /\ ~Truthy(env)
       THEN [raised |-> <<>>,
             define_cache_entry |->
                 IF Truthy(guessed)
                 THEN Append(define_cache_entry, <<"IDF_TARGET", EQ>> \o guessed)
                 ELSE define_cache_entry]
       ELSE IF Truthy(env)
       THEN [raised |->
                 IF Truthy(from_cache) /\ from_cache # env
                 THEN <<EnvVsCache(env, from_cache)>>
                 ELSE IF Truthy(from_sdkconfig) /\ from_sdkconfig # env
                 THEN <<EnvVsConfig(from_sdkconfig, env)>>
                 ELSE <<>>,
             define_cache_entry |-> define_cache_entry]
       ELSE [raised |->
                 IF Truthy(from_cache) /\ Truthy(from_sdkconfig) /\ from_cache # from_sdkconfig
                 THEN <<CacheVsConfig(from_sdkconfig, from_cache)>>
                 ELSE <<>>,
             define_cache_entry |-> define_cache_entry]

\* _guess_or_check_idf_target, for the two sdkconfig files of the project, the
\* environment's IDF_TARGET (None when unset) and the parsed cache.  raised: the
\* FatalErrors raised, in order (a raise ends the call); define_cache_entry:
\* args.define_cache_entry after the call.
_guess_or_check_idf_target(sdkconfig, sdkconfig_defaults, env, cache, define_cache_entry) ==
    LET idf_target_from_sdkconfig == get_target(sdkconfig)
        idf_target_from_sdkconfig_defaults == get_target(sdkconfig_defaults)
        idf_target_from_env == env
        idf_target_from_cache == DictGet(cache, <<"IDF_TARGET">>)
        guessed_target == IF Truthy(idf_target_from_sdkconfig)
                          THEN idf_target_from_sdkconfig
                          ELSE idf_target_from_sdkconfig_defaults
    IN IF DOMAIN cache = {} /\ ~Truthy(idf_target_from_env)
       THEN [raised |-> <<>>,
             define_cache_entry |->
                 IF Truthy(guessed_target)
                 THEN Append(define_cache_entry, <<"IDF_TARGET", EQ>> \o guessed_target)
                 ELSE define_cache_entry]
       ELSE IF Truthy(idf_target_from_env)
       THEN [raised |->
                 IF Truthy(idf_target_from_sdkconfig)
                    /\ idf_target_from_sdkconfig # idf_target_from_env
                 THEN <<EnvVsConfig(idf_target_from_sdkconfig, idf_target_from_env)>>
                 ELSE IF Truthy(idf_target_from_cache)
                         /\ idf_target_from_cache # idf_target_from_env
                 THEN <<EnvVsCache(idf_target_from_env, idf_target_from_cache)>>
                 ELSE <<>>,
             define_cache_entry |-> define_cache_entry]
       ELSE [raised |->
                 IF Truthy(idf_target_from_cache) /\ Truthy(idf_target_from_sdkconfig)
                    /\ idf_target_from_cache # idf_target_from_sdkconfig
                 THEN <<CacheVsConfig(idf_target_from_sdkconfig, idf_target_from_cache)>>
                 ELSE <<>>,
             define_cache_entry |-> define_cache_entry]


\* ---------------------------------------------------------------- generators
\* GENERATORS (constants.py), as _detect_cmake_generator walks it: the names in
\* the order of the dict.
GENERATORS == << <<"Ninja">>, <<"Unix Makefiles">> >>

\* GENERATORS[generator]['command'] as constants.py sets it, a list, and
\* GENERATORS[generator]['verbose_flag'].
GeneratorCommand(generator) ==
    IF generator = <<"Ninja">> THEN <<"ninja">> ELSE <<"make", "-j", "cpu_count+2">>

verbose_flag(generator) ==
    IF generator = <<"Ninja">> THEN "-v" ELSE "VERBOSE=1"

\* A mutant of _detect_cmake_generator: the last generator whose version
\* command runs.
detect_last_generator(available) ==
    LET found == {i \in 1..Len(GENERATORS) : GENERATORS[i] \in available}
    IN IF found = {} THEN None
       ELSE GENERATORS[CHOOSE i \in found : \A j \in found : j <= i]

\* _detect_cmake_generator: the first generator whose version command runs
\* (executable_exists), available being the generators for which it does; None
\* stands for the FatalError raised when there is none.
_detect_cmake_generator(available) ==
    LET found == {i \in 1..Len(GENERATORS) : GENERATORS[i] \in available}
    IN IF found = {} THEN None
       ELSE GENERATORS[CHOOSE i \in found : \A j \in found : i <= j]

\* ---------------------------------------------------------------- the session's surroundings
\* args.project_dir, a second path that is a symbolic link to it, and the
\* directory of another project.
ProjectDir == <<SLASH, "proj">>
LinkToProjectDir == <<SLASH, "link">>
OtherDir == <<SLASH, "other">>

\* realpath: os.path.normcase(os.path.realpath(path)), the link resolved.
realpath(path) == IF path = LinkToProjectDir THEN ProjectDir ELSE path

\* sys.executable, and another interpreter.
SysExecutable == <<"python3">>
OtherPython == <<"python2">>

\* 'CCACHE_ENABLE=%d' % args.ccache
CcacheEntry(ccache) == <<"CCACHE_ENABLE", EQ, IF ccache THEN "1" ELSE "0">>

\* cmake_args of ensure_build_directory, lines 440-453.
CMakeArgs(generator, warn_uninitialized, define_cache_entry) ==
    << <<"cmake">>, <<"-G">>, generator,
       <<"-D", "PYTHON_DEPS_CHECKED", EQ, "1">>,
       <<"-D", "PYTHON", EQ>> \o SysExecutable,
       <<"-D", "ESP_PLATFORM", EQ, "1">> >>
    \o (IF warn_uninitialized THEN << <<"--warn-uninitialized">> >> ELSE <<>>)
    \o [i \in 1..Len(define_cache_entry) |-> <<"-D">> \o define_cache_entry[i]]
    \o <<ProjectDir>>

\* ---------------------------------------------------------------- cmake, the tool
\* What a successful run of the configure tool leaves in CMakeCache.txt: the
\* entries it had, the generator of -G, the source directory, and every -D entry
\* under its key, a later one overriding an earlier one.  The tool is not part of
\* tools.py; raw tells whether it stores a -D value as given or de-quoted.
RECURSIVE RecordArgs(_, _, _, _)
RecordArgs(cmake_args, k, cache, raw) ==
    IF k > Len(cmake_args) THEN cache
    ELSE LET a == cmake_args[k]
         IN IF Len(a) >= 1 /\ a[1] = "-D"
            THEN LET e == SplitEntry(Tail(a))
                     v == IF raw \/ _strip_quotes(e.value) = None
                          THEN e.value ELSE _strip_quotes(e.value)
                 IN RecordArgs(cmake_args, k + 1, DictSet(cache, e.key, v), raw)
            ELSE RecordArgs(cmake_args, k + 1, cache, raw)

CacheKeys ==
    << <<"CCACHE_ENABLE">>, <<"CMAKE_GENERATOR">>, <<"CMAKE_HOME_DIRECTORY">>,
       <<"ESP_PLATFORM">>, <<"FOO">>, <<"IDF_TARGET">>, <<"PYTHON">>,
       <<"PYTHON_DEPS_CHECKED">> >>

\* The file of a dict over CacheKeys: one NAME:TYPE=VALUE line for each key it has.
RECURSIVE LinesOf(_, _)
LinesOf(cache, k) ==
    IF k > Len(CacheKeys) THEN <<>>
    ELSE (IF CacheKeys[k] \in DOMAIN cache
          THEN << CacheKeys[k] \o <<COLON, "STRING", EQ>> \o cache[CacheKeys[k]] \o <<NL>> >>
          ELSE <<>>)
         \o LinesOf(cache, k + 1)

CacheFileOf(cache) == File(LinesOf(cache, 1))

CMakeWrites(cache_file, cmake_args, raw) ==
    LET old == IF cache_file.exists THEN _parse_cmakecache(cache_file) ELSE EmptyDict
        base == DictSet(DictSet(old, <<"CMAKE_GENERATOR">>, cmake_args[3]),
                        <<"CMAKE_HOME_DIRECTORY">>, cmake_args[Len(cmake_args)])
    IN CacheFileOf(RecordArgs(cmake_args, 1, base, raw))

\* ------------------------------------------------------- RunTool, the text
\* Bytes a tool writes and the characters they decode to: ESC is '\x1B', BAD a
\* byte no UTF-8 text holds (such as 0xFF); "[", "]", "0", "m", the blank and
\* the line feed stand for themselves.
ESC == "ESC"
BAD == "0xFF"

\* limit of asyncio.create_subprocess_exec (line 236, 1024 * 256 there): the
\* most bytes of a line before its line feed that readline accepts.
LineLimit == 4

\* The stream's buffer takes twice the limit before the transport stops reading.
PipeCap == 2 * LineLimit

\* os.get_terminal_size().columns
TerminalWidth == 4

space_for_dots == 3

\* The first index from `from` on whose symbol is not in S, Len(s) + 1 if none.
FirstNotIn(s, from, S) ==
    LET hits == {i \in from..Len(s) : s[i] \notin S}
    IN IF hits = {} THEN Len(s) + 1 ELSE CHOOSE i \in hits : \A j \in hits : i <= j

\* pattern occurs in text.
Occurs(pattern, text) ==
    \E i \in 1..(Len(text) - Len(pattern) + 1) :
        SubSeq(text, i, i + Len(pattern) - 1) = pattern

\* bytes.decode() raises UnicodeDecodeError; bytes.decode(errors='ignore').
decode_fails(b) == \E i \in 1..Len(b) : b[i] = BAD

decode_ignore(b) == SelectSeq(b, LAMBDA c : c # BAD)

\* The classes of ansi_escape, r'\x1B(?:[@-Z\\-_]|\[[0-?]*[ -/]*[@-~])', over
\* the symbols above.
FeBytes == {"]"}
ParamBytes == {"0"}
IntermediateBytes == {SP}
FinalBytes == {"[", "]", "m"}

\* The length of the match of ansi_escape that starts at text[i], 0 if none.
\* The three classes of the second alternative are disjoint: no backtracking.
ansi_escape_at(text, i) ==
    IF text[i] # ESC \/ i = Len(text) THEN 0
    ELSE IF text[i + 1] \in FeBytes THEN 2
    ELSE IF text[i + 1] # "[" THEN 0
    ELSE LET p == FirstNotIn(text, i + 2, ParamBytes)
             q == FirstNotIn(text, p, IntermediateBytes)
         IN IF q <= Len(text) /\ text[q] \in FinalBytes THEN q - i + 1 ELSE 0

\* ansi_escape.sub('', text) from index i on: one pass, left to right.
RECURSIVE ansi_escape_sub(_, _)
ansi_escape_sub(text, i) ==
    IF i > Len(text) THEN <<>>
    ELSE IF ansi_escape_at(text, i) > 0
    THEN ansi_escape_sub(text, i + ansi_escape_at(text, i))
    ELSE <<text[i]>> \o ansi_escape_sub(text, i + 1)

\* A mutant of delete_ansi_escape: nothing is removed.
keep_ansi_escape(text) == text

delete_ansi_escape(text) == ansi_escape_sub(text, 1)

\* text holds a match of ansi_escape.
HasAnsiEscape(text) == \E i \in 1..Len(text) : ansi_escape_at(text, i) > 0

\* StreamReader.readline() on a buffer: a line with its line feed, at the end
\* of the stream what is left (b'' when nothing is), "wait" while neither is
\* there; ValueError when more than the limit precedes the line feed or the
\* end of the buffer.
readline(buffer, at_eof) ==
    LET isep == FirstIn(buffer, 1, {NL})
    IN IF isep <= Len(buffer)
       THEN IF isep - 1 > LineLimit
            THEN [kind |-> "ValueError", data |-> <<>>, rest |-> buffer]
            ELSE [kind |-> "data", data |-> SubSeq(buffer, 1, isep),
                  rest |-> SubSeq(buffer, isep + 1, Len(buffer))]
       ELSE IF Len(buffer) > LineLimit
       THEN [kind |-> "ValueError", data |-> <<>>, rest |-> buffer]
       ELSE IF at_eof
       THEN [kind |-> "data", data |-> buffer, rest |-> <<>>]
       ELSE [kind |-> "wait", data |-> <<>>, rest |-> buffer]

\* output.strip('\n\r')
strip_newlines(s) ==
    LET keep == {i \in 1..Len(s) : s[i] # NL}
    IN IF keep = {} THEN <<>>
       ELSE SubSeq(s, CHOOSE i \in keep : \A j \in keep : i <= j,
                      CHOOSE i \in keep : \A j \in keep : j <= i)

\* fit_text_in_terminal: the text, its middle replaced by '...' when it does
\* not fit the terminal.
fit_text_in_terminal(out) ==
    IF TerminalWidth <= space_for_dots THEN [i \in 1..TerminalWidth |-> "."]
    ELSE IF Len(out) >= TerminalWidth
    THEN LET elide_size == (TerminalWidth - space_for_dots) \div 2
         IN SubSeq(out, 1, elide_size) \o <<".", ".", ".">>
            \o SubSeq(out, Len(out) - elide_size + 1, Len(out))
    ELSE out

\* ------------------------------------------------------- generate_hints
\* A rule of hints.yml is a dict with the keys 're', 'hint' and 'variables'; a
\* key it lacks has the value Missing ('variables': <<>>, what hint.get gives a
\* loop over).  A template is a sequence of symbols: SLOT is the placeholder
\* '{}', NAMED a placeholder with a name ('{x}'), UNBALANCED a '(' that makes
\* a regular expression invalid; any other symbol matches itself.
Missing == <<"Missing">>
SLOT == "{}"
NAMED == "{x}"
UNBALANCED == "("

\* str.format(*fmt_args) from symbol i of the template on, k the next
\* positional argument: the first field that cannot be filled raises, KeyError
\* for a name, IndexError for a position past the arguments.
RECURSIVE format_from(_, _, _, _)
format_from(template, i, k, fmt_args) ==
    IF i > Len(template) THEN [raised |-> "none", text |-> <<>>]
    ELSE IF template[i] = NAMED THEN [raised |-> "KeyError", text |-> <<>>]
    ELSE IF template[i] = SLOT /\ k > Len(fmt_args)
    THEN [raised |-> "IndexError", text |-> <<>>]
    ELSE LET rest == format_from(template, i + 1,
                                 IF template[i] = SLOT THEN k + 1 ELSE k, fmt_args)
         IN [raised |-> rest.raised,
             text |-> IF rest.raised # "none" THEN <<>>
                      ELSE (IF template[i] = SLOT THEN fmt_args[k] ELSE <<template[i]>>)
                           \o rest.text]

str_format(template, fmt_args) == format_from(template, 1, 1, fmt_args)

\* re.compile(regex) raises re.error.
re_error(regex) == \E i \in 1..Len(regex) : regex[i] = UNBALANCED

\* Iterating a text file: its lines, each with its line feed.
RECURSIVE file_lines(_)
file_lines(text) ==
    IF text = <<>> THEN <<>>
    ELSE LET n == FirstIn(text, 1, {NL})
         IN IF n > Len(text) THEN <<text>>
            ELSE <<SubSeq(text, 1, n)>> \o file_lines(SubSeq(text, n + 1, Len(text)))

\* str.strip()
strip(s) ==
    LET keep == {i \in 1..Len(s) : ~IsSpace(s[i])}
    IN IF keep = {} THEN <<>>
       ELSE SubSeq(s, CHOOSE i \in keep : \A j \in keep : i <= j,
                      CHOOSE i \in keep : \A j \in keep : j <= i)

\* ' '.join(line.strip() for line in file if line.strip()), from line k on.
RECURSIVE join_stripped(_, _, _)
join_stripped(lines, k, first) ==
    IF k > Len(lines) THEN <<>>
    ELSE IF strip(lines[k]) = <<>> THEN join_stripped(lines, k + 1, first)
    ELSE (IF first THEN <<>> ELSE <<SP>>) \o strip(lines[k])
         \o join_stripped(lines, k + 1, FALSE)

flatten(text) == join_stripped(file_lines(text), 1, TRUE)

HintExit == [raised |-> "SystemExit", list |-> <<>>]

\* Lines 131-141, the loop over variables_list from set k on: the messages of
\* the sets whose pattern is found in output.  A missing key and a named
\* placeholder are a KeyError, an invalid pattern a re.error: both print and
\* sys.exit(1).  A positional placeholder past the fill-ins is an IndexError,
\* which nothing catches.
RECURSIVE hint_list_from(_, _, _)
hint_list_from(hint, output, k) ==
    IF k > Len(hint.variables) THEN [raised |-> "none", list |-> <<>>]
    ELSE LET variables == hint.variables[k]
             regex == str_format(hint.re, variables.re_variables)
             message == str_format(hint.hint, variables.hint_variables)
             rest == hint_list_from(hint, output, k + 1)
         IN IF variables.hint_variables = Missing \/ variables.re_variables = Missing
               \/ hint.re = Missing
            THEN HintExit
            ELSE IF regex.raised = "KeyError" THEN HintExit
            ELSE IF regex.raised = "IndexError"
            THEN [raised |-> "IndexError", list |-> <<>>]
            ELSE IF re_error(regex.text) THEN HintExit
            ELSE IF ~Occurs(regex.text, output) THEN rest
            ELSE IF hint.hint = Missing \/ message.raised = "KeyError" THEN HintExit
            ELSE IF message.raised = "IndexError"
            THEN [raised |-> "IndexError", list |-> <<>>]
            ELSE IF rest.raised # "none" THEN rest
            ELSE [raised |-> "none", list |-> <<message.text>> \o rest.list]

\* ' '.join(['HINT:', message])
HintLine(message) == <<"HINT:", SP>> \o message

\* Lines 126-158 for one rule and one flattened file: what the rule yields, and
\* the exception that ends the scan, if one does.  A rule without variable
\* sets is searched as it is and its message formatted with extra_info, which
\* is '' for a pattern without groups.
hints_of_rule(hint, output) ==
    IF hint.variables # <<>>
    THEN LET r == hint_list_from(hint, output, 1)
         IN [raised |-> r.raised,
             yielded |-> [i \in 1..Len(r.list) |-> HintLine(r.list[i])]]
    ELSE IF hint.re = Missing THEN [raised |-> "SystemExit", yielded |-> <<>>]
    ELSE IF re_error(hint.re) THEN [raised |-> "SystemExit", yielded |-> <<>>]
    ELSE IF ~Occurs(hint.re, output) THEN [raised |-> "none", yielded |-> <<>>]
    ELSE IF hint.hint = Missing THEN [raised |-> "KeyError", yielded |-> <<>>]
    ELSE LET message == str_format(hint.hint, << <<>> >>)
         IN IF message.raised # "none"
            THEN [raised |-> message.raised, yielded |-> <<>>]
            ELSE [raised |-> "none", yielded |-> <<HintLine(message.text)>>]

\* The loop over the rules for one file, from rule k on.
RECURSIVE scan_rules(_, _, _)
scan_rules(hints, output, k) ==
    IF k > Len(hints) THEN [raised |-> "none", yielded |-> <<>>]
    ELSE LET r == hints_of_rule(hints[k], output)
             rest == scan_rules(hints, output, k + 1)
         IN IF r.raised # "none" THEN r
            ELSE [raised |-> rest.raised, yielded |-> r.yielded \o rest.yielded]

\* The loop over the files, from file k on; open() of a file that is not there
\* raises FileNotFoundError.
RECURSIVE scan_files(_, _, _)
scan_files(hints, files, k) ==
    IF k > Len(files) THEN [raised |-> "none", yielded |-> <<>>]
    ELSE IF ~files[k].exists THEN [raised |-> "FileNotFoundError", yielded |-> <<>>]
    ELSE LET r == scan_rules(hints, flatten(files[k].text), 1)
             rest == scan_files(hints, files, k + 1)
         IN IF r.raised # "none" THEN r
            ELSE [raised |-> rest.raised, yielded |-> r.yielded \o rest.yielded]

\* A mutant of generate_hints: the scan stops at the first file.
generate_hints_first_file(hints, files) ==
    scan_files(hints, IF files = <<>> THEN <<>> ELSE <<files[1]>>, 1)

\* generate_hints(*filenames), the generator run to its end: the hints it
\* yields, in order, and the exception that ends it ("none": it is exhausted).
generate_hints(hints, files) == scan_files(hints, files, 1)

\* ---------------------------------------------------------------- state
VARIABLES
    arg,      \* the arguments of the pure function under check
    ret,      \* what it returned
    called    \* the calls made so far, by name

pureVars == <<arg, ret, called>>

VARIABLES
    cmakecache,      \* CMakeCache.txt of the build directory
    build_dir,       \* whether the build directory exists
    sdkconfig_txt,   \* the project's sdkconfig
    defaults_txt,    \* the project's sdkconfig.defaults
    environ_target,  \* os.environ.get('IDF_TARGET')
    on_path,         \* the generators whose version command runs
    command,         \* per generator, the list GENERATORS[generator]['command']
    inputs,          \* the command line of the session: generator,
                     \* define_cache_entry, ccache, always_run_cmake
    args,            \* args of ensure_build_directory, as the call changes it
    pc,              \* where ensure_build_directory stands
    outcome,         \* how the call ended: kind, the step, the conflict raised
    decision,        \* what line 436 decided in this session
    configured,      \* the calls of RunTool('cmake', ...) in this session
    cache_at_start,  \* CMakeCache.txt when the session began
    sessions,        \* the sessions begun so far
    prev,            \* the session before: ok, configured, recorded
    rel              \* this session's command line against the one before

worldVars == <<build_dir, sdkconfig_txt, defaults_txt, environ_target, on_path, command>>

sessionVars ==
    <<inputs, args, pc, outcome, decision, configured,
      cache_at_start, sessions, prev, rel>>

buildVars == <<cmakecache, worldVars, sessionVars>>

VARIABLES
    runtool,        \* the RunTool object: hints, custom_error_handler, interactive,
                    \* force_progression; verbose ('-v' in args), isatty (of the
                    \* console)
    proc,           \* the tool: state, its program, the writes it still makes, its exit code
    pipe,           \* per stream, the bytes written and not yet read
    reader,         \* per stream, read_and_write_stream: pc, buffer, chunks read
    logfile,        \* per stream, the log file
    console,        \* per stream, what was written to sys.stderr and sys.stdout
    runpc,          \* where __call__ and run_command stand
    scan,           \* generate_hints on the two log files, once it is called
    printed,        \* the hints printed so far
    handler_calls,  \* the calls of custom_error_handler, by their arguments
    warnings,       \* the streams a reader gave up with a warning
    faults,         \* the I/O faults so far
    result          \* how __call__ ended

runVars ==
    <<runtool, proc, pipe, reader, logfile, console, runpc, scan, printed,
      handler_calls, warnings, faults, result>>

Streams == {"stderr", "stdout"}

NoLog == [exists |-> FALSE, text |-> <<>>]

LogFile(text) == [exists |-> TRUE, text |-> text]

NoRunTool ==
    [hints |-> FALSE, custom_error_handler |-> FALSE, interactive |-> FALSE,
     force_progression |-> FALSE, verbose |-> FALSE, isatty |-> FALSE]

NoProc == [state |-> "none", program |-> <<>>, todo |-> <<>>, returncode |-> 0]

NoReader == [pc |-> "idle", buffer |-> <<>>, chunks |-> <<>>, end |-> ""]

NoScan == [raised |-> "none", yielded |-> <<>>]

NoResult == [kind |-> "none", code |-> 0, paths |-> <<>>]

\* No tool is being run.
NoRun ==
    /\ runtool = NoRunTool
    /\ proc = NoProc
    /\ pipe = [s \in Streams |-> <<>>]
    /\ reader = [s \in Streams |-> NoReader]
    /\ logfile = [s \in Streams |-> NoLog]
    /\ console = [s \in Streams |-> <<>>]
    /\ runpc = "idle"
    /\ scan = NoScan
    /\ printed = <<>>
    /\ handler_calls = <<>>
    /\ warnings = <<>>
    /\ faults = 0
    /\ result = NoResult

vars == <<pureVars, buildVars, runVars>>

NoInputs ==
    [generator |-> None, define_cache_entry |-> <<>>, ccache |-> FALSE,
     always_run_cmake |-> FALSE]

NoArgs == [generator |-> None, define_cache_entry |-> <<>>, ccache |-> FALSE]

NoOutcome == [kind |-> "none", step |-> 0, conflict |-> <<>>]

NoPrev == [ok |-> FALSE, configured |-> 0, recorded |-> FALSE]

NoRel == [kind |-> "first", entry |-> <<>>]

\* Before the first session.
Idle ==
    /\ command = [i \in 1..Len(GENERATORS) |-> GeneratorCommand(GENERATORS[i])]
    /\ inputs = NoInputs
    /\ args = NoArgs
    /\ pc = "idle"
    /\ outcome = NoOutcome
    /\ decision = "none"
    /\ configured = 0
    /\ cache_at_start = NoFile
    /\ sessions = 0
    /\ prev = NoPrev
    /\ rel = NoRel

\* The build directory's variables while a pure function is under check.
NoBuild ==
    /\ cmakecache = NoFile
    /\ build_dir = FALSE
    /\ sdkconfig_txt = NoFile
    /\ defaults_txt = NoFile
    /\ environ_target = None
    /\ on_path = {}
    /\ Idle

NoSession == NoBuild /\ NoRun

\* A value wrapped in matching double or single quotes.
Quoted(s) == Wrapped(s, DQ) \/ Wrapped(s, SQ)

\* ---------------------------------------------------------------- StripSpec
\* _strip_quotes applied to a value, and again to its result.
StripAlphabet == {"a", DQ, SQ, SP, NL}

StripInit ==
    /\ arg \in SeqsUpTo(StripAlphabet, MaxLen)
    /\ ret = <<>>
    /\ called = <<>>
    /\ NoSession

\* ret[k] is the result of the k-th application; a second application to None
\* raises TypeError (re.match on None) and is not made.
StripOnce ==
    /\ called = <<>>
    /\ ret' = <<_strip_quotes(arg)>>
    /\ called' = <<"_strip_quotes">>
    /\ UNCHANGED <<arg, buildVars, runVars>>

StripTwice ==
    /\ called = <<"_strip_quotes">>
    /\ ret[1] # None
    /\ ret' = Append(ret, _strip_quotes(ret[1]))
    /\ called' = Append(called, "_strip_quotes")
    /\ UNCHANGED <<arg, buildVars, runVars>>

StripNext == StripOnce \/ StripTwice

StripSpec == StripInit /\ [][StripNext]_vars

\* C3 (as stated): de-quoting is idempotent: for every value v,
\* _strip_quotes(_strip_quotes(v)) = _strip_quotes(v).
C3_Idempotent == Len(ret) = 2 => ret[2] = ret[1]

\* C3 (amended): _strip_quotes removes one layer of quotes: a second application
\* returns the same value exactly when the first result is not itself wrapped in
\* matching quotes, and strips a further layer when it is.
C3_IdempotentUnlessStillQuoted ==
    Len(ret) = 2 => (ret[2] = ret[1] <=> ~Quoted(ret[1]))

\* C3 witness: a quoted value with whitespace inside the quotes, de-quoted twice
\* with the same result.
C3_Witness ==
    /\ Len(ret) = 2
    /\ Wrapped(arg, DQ)
    /\ arg[Len(arg) - 1] = SP
    /\ ret[2] = ret[1]
    /\ ret[1] # arg

\* ---------------------------------------------------------------- CacheSpec
\* _new_cmakecache_entries on a cache file and a list of proposed entries.
CacheLinePool ==
    { <<"FOO", COLON, "STRING", EQ, "a", NL>>,
      <<"FOO", COLON, "STRING", EQ, "b", NL>>,
      <<"FOO", COLON, "STRING", EQ, SQ, "a", SQ, NL>>,
      <<"BAR", COLON, "BOOL", EQ, NL>>,
      <<HASH, SP, "FOO", COLON, "STRING", EQ, "a", NL>>,
      <<"BAR", EQ, "a", NL>> }

CacheEntryPool ==
    { <<"FOO", EQ, "a">>,
      <<"FOO", EQ, SQ, "a", SQ>>,
      <<"FOO", EQ, DQ, "a", SP, DQ>>,
      <<"FOO", EQ, "b">>,
      <<"BAR", EQ>>,
      <<"BAZ", EQ, "a">> }

CacheInit ==
    /\ arg \in [file : {NoFile} \cup {File(ls) : ls \in SeqsUpTo(CacheLinePool, MaxLines)},
                entries : SeqsUpTo(CacheEntryPool, MaxEntries)]
    /\ ret = <<>>
    /\ called = <<>>
    /\ NoSession

WouldChange ==
    /\ called = <<>>
    /\ ret' = <<_new_cmakecache_entries(arg.file, arg.entries)>>
    /\ called' = <<"_new_cmakecache_entries">>
    /\ UNCHANGED <<arg, buildVars, runVars>>

CacheNext == WouldChange

CacheSpec == CacheInit /\ [][CacheNext]_vars

\* C1: for an existing cache file, _new_cmakecache_entries returns False exactly
\* when every proposed key is in the parsed snapshot with a value equal to the
\* de-quoted proposed value; so it returns False for an empty list of entries.
C1_WouldChangeIff ==
    (called # <<>> /\ arg.file.exists) =>
        LET snapshot == _parse_cmakecache(arg.file)
            same(e) == /\ e.key \in DOMAIN snapshot
                       /\ snapshot[e.key] = _strip_quotes(e.value)
        IN /\ ret[1] = FALSE <=>
                  \A i \in 1..Len(arg.entries) : same(SplitEntry(arg.entries[i]))
           /\ arg.entries = <<>> => ret[1] = FALSE

\* C1 witness: a quoted proposed value whose de-quoted form is the stored value,
\* after an entry that is stored as given: no change is reported.
C1_Witness ==
    /\ called # <<>>
    /\ arg.file.exists
    /\ Len(arg.entries) = 2
    /\ Quoted(SplitEntry(arg.entries[2]).value)
    /\ ret[1] = FALSE

\* ---------------------------------------------------------------- TargetSpec
\* _guess_or_check_idf_target on the four sources of a target.
SdkLinePool ==
    { <<"CONFIG_IDF_TARGET", EQ, DQ, "esp32", DQ, NL>>,
      <<"CONFIG_IDF_TARGET", EQ, DQ, "esp32s3", DQ, NL>>,
      <<"CONFIG_IDF_TARGET", EQ, "esp32", NL>>,
      <<"CONFIG_IDF_TARGET", EQ, DQ, DQ, NL>>,
      <<HASH, SP, "CONFIG_IDF_TARGET", SP, "is not set", NL>> }

SdkFiles == {NoFile} \cup {File(ls) : ls \in SeqsUpTo(SdkLinePool, MaxSdkLines)}

\* os.environ.get('IDF_TARGET'): unset, empty, or a target.
EnvTargets == {None, <<>>, <<"esp32">>, <<"esp32s3">>}

TargetCacheFiles ==
    { NoFile,
      File(<<>>),
      File(<< <<"IDF_TARGET", COLON, "STRING", EQ, "esp32", NL>> >>),
      File(<< <<"IDF_TARGET", COLON, "STRING", EQ, "esp32s3", NL>> >>),
      File(<< <<"IDF_TARGET", COLON, "STRING", EQ, NL>> >>),
      File(<< <<"FOO", COLON, "STRING", EQ, "a", NL>> >>) }

\* ensure_build_directory's cache: the parsed file, {} when there is none.
CacheOf(cache_file) ==
    IF cache_file.exists THEN _parse_cmakecache(cache_file) ELSE EmptyDict

TargetInit ==
    /\ arg \in [sdkconfig : SdkFiles,
                sdkconfig_defaults : SdkFiles,
                env : EnvTargets,
                cache_file : TargetCacheFiles,
                define_cache_entry : {<<>>, << <<"FOO", EQ, "a">> >>}]
    /\ ret = <<>>
    /\ called = <<>>
    /\ NoSession

GuessOrCheck ==
    /\ called = <<>>
    /\ ret' = <<_guess_or_check_idf_target(arg.sdkconfig, arg.sdkconfig_defaults, arg.env,
                                           CacheOf(arg.cache_file), arg.define_cache_entry)>>
    /\ called' = <<"_guess_or_check_idf_target">>
    /\ UNCHANGED <<arg, buildVars, runVars>>

TargetNext == GuessOrCheck

TargetSpec == TargetInit /\ [][TargetNext]_vars

\* The rules of the cross-check on the candidates of one call, in the documented
\* order; the first one violated, "none" when none is.
FirstViolatedRule(from_config, from_env, from_cache) ==
    IF Truthy(from_env) /\ Truthy(from_config) /\ from_config # from_env
    THEN "env_vs_config"
    ELSE IF Truthy(from_env) /\ Truthy(from_cache) /\ from_cache # from_env
    THEN "env_vs_cache"
    ELSE IF ~Truthy(from_env) /\ Truthy(from_cache) /\ Truthy(from_config)
            /\ from_cache # from_config
    THEN "cache_vs_config"
    ELSE "none"

\* C6: for every combination of the four candidates a call raises at most one
\* conflict, and it is the conflict of the first violated rule: environment
\* against config before environment against cache, cache against config only
\* without an environment target.
C6_OneConflictFirstRule ==
    called # <<>> =>
        LET rule == FirstViolatedRule(get_target(arg.sdkconfig), arg.env,
                                      DictGet(CacheOf(arg.cache_file), <<"IDF_TARGET">>))
        IN /\ Len(ret[1].raised) <= 1
           /\ rule = "none" <=> ret[1].raised = <<>>
           /\ ret[1].raised # <<>> => ret[1].raised[1].kind = rule

\* C6 witness: the environment disagrees with the config and with the cache, and
\* the one conflict raised is the one with the config.
C6_Witness ==
    /\ called # <<>>
    /\ Truthy(arg.env)
    /\ Truthy(get_target(arg.sdkconfig)) /\ get_target(arg.sdkconfig) # arg.env
    /\ Truthy(DictGet(CacheOf(arg.cache_file), <<"IDF_TARGET">>))
    /\ DictGet(CacheOf(arg.cache_file), <<"IDF_TARGET">>) # arg.env
    /\ Len(ret[1].raised) = 1
    /\ ret[1].raised[1].kind = "env_vs_config"

\* The target a configuration file declares: the value of its last
\* CONFIG_IDF_TARGET line, without the quotes around it and the line feed that
\* ends the line; <<>> when the file is missing or declares none.
Unquote(s) == SelectSeq(s, LAMBDA c : c \notin {DQ, NL})

DeclaredTarget(file) ==
    LET ks == {k \in 1..Len(file.lines) :
                  /\ Len(file.lines[k]) >= 2
                  /\ file.lines[k][1] = "CONFIG_IDF_TARGET"
                  /\ file.lines[k][2] = EQ}
        last == CHOOSE k \in ks : \A j \in ks : j <= k
    IN IF ~file.exists \/ ks = {} THEN <<>>
       ELSE Unquote(SubSeq(file.lines[last], 3, Len(file.lines[last])))

\* text holds the value v.
Mentions(text, v) ==
    \E i \in 1..(Len(text) - Len(v) + 1) : SubSeq(text, i, i + Len(v) - 1) = v

\* C7 (as stated): without a cache file and without an environment target the
\* call raises no conflict and appends exactly the entry IDF_TARGET=<value>,
\* <value> being the target the sdkconfig declares, or else the one its defaults
\* file declares; when neither declares one the entries are left as they were.
C7_GuessAppendsDeclaredTarget ==
    (called # <<>> /\ ~arg.cache_file.exists /\ ~Truthy(arg.env)) =>
        LET declared == IF DeclaredTarget(arg.sdkconfig) # <<>>
                        THEN DeclaredTarget(arg.sdkconfig)
                        ELSE DeclaredTarget(arg.sdkconfig_defaults)
        IN /\ ret[1].raised = <<>>
           /\ ret[1].define_cache_entry =
                  IF declared # <<>>
                  THEN Append(arg.define_cache_entry, <<"IDF_TARGET", EQ>> \o declared)
                  ELSE arg.define_cache_entry

\* C8 (as stated): with an environment target, a different target declared in
\* the sdkconfig raises a conflict that names both values and set-target, a
\* different target in the cache raises one that tells to run fullclean, and an
\* environment target that agrees with every target present in the sdkconfig and
\* in the cache raises nothing and leaves the proposed entries unchanged.
C8_EnvironmentTargetChecked ==
    (called # <<>> /\ Truthy(arg.env)) =>
        LET from_config == DeclaredTarget(arg.sdkconfig)
            from_cache == DictGet(CacheOf(arg.cache_file), <<"IDF_TARGET">>)
            config_differs == from_config # <<>> /\ from_config # arg.env
            cache_differs == Truthy(from_cache) /\ from_cache # arg.env
            raised == ret[1].raised
        IN /\ config_differs =>
                  /\ Len(raised) = 1
                  /\ raised[1].kind = "env_vs_config"
                  /\ Mentions(raised[1].values[1], from_config)
                  /\ raised[1].values[2] = arg.env
                  /\ "set-target" \in raised[1].remedies
           /\ (cache_differs /\ ~config_differs) =>
                  /\ Len(raised) = 1
                  /\ raised[1].kind = "env_vs_cache"
                  /\ raised[1].values = <<arg.env, from_cache>>
                  /\ "fullclean" \in raised[1].remedies
           /\ (~config_differs /\ ~cache_differs) =>
                  /\ raised = <<>>
                  /\ ret[1].define_cache_entry = arg.define_cache_entry

\* ---------------------------------------------------------------- Spec
\* Sessions of ensure_build_directory on one build directory.

\* The build directories a first session may find: none, an empty cache file, a
\* cache a configure run left, and that cache with one entry differing or missing.
ConfiguredCache ==
    [k \in { <<"CCACHE_ENABLE">>, <<"CMAKE_GENERATOR">>, <<"CMAKE_HOME_DIRECTORY">>,
             <<"IDF_TARGET">>, <<"PYTHON">> } |->
        CASE k = <<"CCACHE_ENABLE">> -> <<"0">>
          [] k = <<"CMAKE_GENERATOR">> -> <<"Ninja">>
          [] k = <<"CMAKE_HOME_DIRECTORY">> -> ProjectDir
          [] k = <<"IDF_TARGET">> -> <<"esp32">>
          [] k = <<"PYTHON">> -> SysExecutable]

InitialCaches ==
    { NoFile,
      File(<<>>),
      CacheFileOf(ConfiguredCache),
      CacheFileOf(DictSet(ConfiguredCache, <<"CMAKE_GENERATOR">>, <<"Unix Makefiles">>)),
      CacheFileOf([k \in DOMAIN ConfiguredCache \ {<<"CMAKE_GENERATOR">>} |->
                      ConfiguredCache[k]]),
      CacheFileOf(DictSet(ConfiguredCache, <<"CMAKE_HOME_DIRECTORY">>, OtherDir)),
      CacheFileOf(DictSet(ConfiguredCache, <<"CMAKE_HOME_DIRECTORY">>, LinkToProjectDir)),
      CacheFileOf(DictSet(ConfiguredCache, <<"PYTHON">>, OtherPython)),
      CacheFileOf(DictSet(ConfiguredCache, <<"IDF_TARGET">>, <<"esp32s3">>)),
      CacheFileOf(DictSet(EmptyDict, <<"IDF_TARGET">>, <<"esp32">>)) }

ProjectSdkconfigs ==
    { NoFile,
      File(<< <<"CONFIG_IDF_TARGET", EQ, DQ, "esp32", DQ, NL>> >>),
      File(<< <<"CONFIG_IDF_TARGET", EQ, DQ, "esp32s3", DQ, NL>> >>),
      File(<< <<"CONFIG_IDF_TARGET", EQ, "esp32s3", NL>> >>) }

\* The defaults file counts only when the sdkconfig declares no target, and
\* every sdkconfig above declares one: it is varied when there is no sdkconfig.
ProjectDefaults ==
    { NoFile, File(<< <<"CONFIG_IDF_TARGET", EQ, DQ, "esp32", DQ, NL>> >>) }

\* The -D entries of a command line.
UserEntryPool ==
    { <<"FOO", EQ, "a">>, <<"FOO", EQ, SQ, "a", SQ>>, <<"FOO", EQ, "b">> }

UserEntryLists == {<<>>} \cup {<<e>> : e \in UserEntryPool}

Init ==
    /\ arg = <<>>
    /\ ret = <<>>
    /\ called = <<>>
    /\ cmakecache \in InitialCaches
    /\ build_dir \in {cmakecache.exists, TRUE}
    /\ sdkconfig_txt \in ProjectSdkconfigs
    /\ defaults_txt \in IF sdkconfig_txt.exists THEN {NoFile} ELSE ProjectDefaults
    /\ environ_target \in {None, <<"esp32">>}
    /\ on_path \in {{}, {<<"Unix Makefiles">>}, {<<"Ninja">>, <<"Unix Makefiles">>}}
    /\ Idle
    /\ NoRun

\* Every proposed entry is in the cache file under its key with its de-quoted value.
Recorded(file, entries) ==
    /\ file.exists
    /\ \A i \in 1..Len(entries) :
           LET e == SplitEntry(entries[i])
           IN /\ e.key \in DOMAIN _parse_cmakecache(file)
              /\ _parse_cmakecache(file)[e.key] = _strip_quotes(e.value)

\* ensure_build_directory is called for the command line inp.
Begin(inp, relation) ==
    /\ inputs' = inp
    /\ args' = [generator |-> inp.generator,
                define_cache_entry |-> inp.define_cache_entry,
                ccache |-> inp.ccache]
    /\ pc' = "check_cmake"
    /\ outcome' = NoOutcome
    /\ decision' = "none"
    /\ configured' = 0
    /\ cache_at_start' = cmakecache
    /\ sessions' = sessions + 1
    /\ prev' = IF sessions = 0 THEN NoPrev
               ELSE [ok |-> outcome.kind = "success",
                     configured |-> configured,
                     recorded |-> Recorded(cmakecache, args.define_cache_entry)]
    /\ rel' = relation
    /\ UNCHANGED <<pureVars, runVars, cmakecache, worldVars>>

FirstSession ==
    /\ pc = "idle"
    /\ \E g \in {None} \cup {GENERATORS[i] : i \in 1..Len(GENERATORS)},
          es \in UserEntryLists, cc \in BOOLEAN, always \in BOOLEAN :
           Begin([generator |-> g, define_cache_entry |-> es, ccache |-> cc,
                  always_run_cmake |-> always],
                 [kind |-> "first", entry |-> <<>>])

\* The same command line again, after a session that returned.  (What a session
\* that raised leaves behind is a build directory a first session may find.)
Rerun ==
    /\ pc = "done"
    /\ sessions < MaxSessions
    /\ Begin(inputs, [kind |-> "same", entry |-> <<>>])

\* The same command line with the value of one -D entry changed.
RerunChanged ==
    /\ pc = "done"
    /\ sessions < MaxSessions
    /\ \E i \in 1..Len(inputs.define_cache_entry), e \in UserEntryPool :
           /\ e # inputs.define_cache_entry[i]
           /\ SplitEntry(e).key = SplitEntry(inputs.define_cache_entry[i]).key
           /\ Begin([inputs EXCEPT !.define_cache_entry[i] = e],
                    [kind |-> "one_changed", entry |-> e])

\* A FatalError (or SystemExit) leaves ensure_build_directory.
Raise(kind, step, conflict) ==
    /\ pc' = "fatal"
    /\ outcome' = [kind |-> kind, step |-> step, conflict |-> conflict]

\* Lines 408-410: executable_exists(['cmake', '--version']).
CheckCMake ==
    /\ pc = "check_cmake"
    /\ \E ok \in BOOLEAN :
           IF ok THEN pc' = "verify_project" /\ UNCHANGED outcome
           ELSE Raise("cmake_missing", 1, <<>>)
    /\ UNCHANGED <<pureVars, runVars, cmakecache, worldVars, inputs, args, decision, configured,
                   cache_at_start, sessions, prev, rel>>

\* Lines 412-420: the project directory exists, is a directory, has CMakeLists.txt.
VerifyProject ==
    /\ pc = "verify_project"
    /\ \E found \in {"project", "nothing", "not_a_directory", "no_cmakelists"} :
           IF found = "project" THEN pc' = "build_dir" /\ UNCHANGED outcome
           ELSE Raise(found, 2, <<>>)
    /\ UNCHANGED <<pureVars, runVars, cmakecache, worldVars, inputs, args, decision, configured,
                   cache_at_start, sessions, prev, rel>>

\* Lines 423-425: os.makedirs(build_dir) when it is no directory.
MakeBuildDir ==
    /\ pc = "build_dir"
    /\ build_dir' = TRUE
    /\ pc' = "target"
    /\ UNCHANGED <<pureVars, runVars, cmakecache, sdkconfig_txt, defaults_txt, environ_target,
                   on_path, command, inputs, args, outcome, decision, configured,
                   cache_at_start, sessions, prev, rel>>

\* Lines 427-434: the cache is parsed, the target cross-checked, CCACHE_ENABLE appended.
CheckTarget ==
    /\ pc = "target"
    /\ LET r == _guess_or_check_idf_target(sdkconfig_txt, defaults_txt, environ_target,
                                           CacheOf(cmakecache), args.define_cache_entry)
       IN IF r.raised # <<>>
          THEN Raise("target_conflict", 5, r.raised[1]) /\ UNCHANGED args
          ELSE /\ args' = [args EXCEPT !.define_cache_entry =
                               Append(r.define_cache_entry, CcacheEntry(args.ccache))]
               /\ pc' = "decide"
               /\ UNCHANGED outcome
    /\ UNCHANGED <<pureVars, runVars, cmakecache, worldVars, inputs, decision, configured,
                   cache_at_start, sessions, prev, rel>>

\* Line 436: always_run_cmake or _new_cmakecache_entries(cache_path, args.define_cache_entry).
Decide ==
    /\ pc = "decide"
    /\ IF inputs.always_run_cmake
          \/ _new_cmakecache_entries(cmakecache, args.define_cache_entry)
       THEN decision' = "reconfigure" /\ pc' = "generator"
       ELSE decision' = "keep" /\ pc' = "reparse"
    /\ UNCHANGED <<pureVars, runVars, cmakecache, worldVars, inputs, args, outcome, configured,
                   cache_at_start, sessions, prev, rel>>

\* Lines 437-438, before the try block: the generator is detected when none was asked for.
ResolveGenerator ==
    /\ pc = "generator"
    /\ IF args.generator # None
       THEN pc' = "cmake" /\ UNCHANGED <<args, outcome>>
       ELSE IF _detect_cmake_generator(on_path) = None
       THEN Raise("no_generator", 7, <<>>) /\ UNCHANGED args
       ELSE /\ args' = [args EXCEPT !.generator = _detect_cmake_generator(on_path)]
            /\ pc' = "cmake"
            /\ UNCHANGED outcome
    /\ UNCHANGED <<pureVars, runVars, cmakecache, worldVars, inputs, decision, configured,
                   cache_at_start, sessions, prev, rel>>
\* What a run of the configure tool that fails may leave behind: the cache file
\* as it was, or a cache written in part (the generator, nothing else new).
LeftByFailedCMake(cache_file, cmake_args) ==
    { cache_file,
      CacheFileOf(DictSet(IF cache_file.exists THEN _parse_cmakecache(cache_file)
                          ELSE EmptyDict,
                          <<"CMAKE_GENERATOR">>, cmake_args[3])) }

\* A mutant of the except clause: the cache file is left as the tool left it.
keep_cache_after_exception(left) == left

\* Lines 457-462, the except Exception clause: the cache file is removed when it
\* exists, and the exception raised again.
remove_cache_after_exception(left) == NoFile

\* A mutant of cache_after_system_exit: the cache file is removed.
cache_removed_after_system_exit(left) == NoFile

\* Line 457: except Exception does not catch SystemExit, so the cache file
\* stays as the tool left it.
cache_after_system_exit(left) == left

\* Lines 439-462: cmake_args is put together and RunTool('cmake', ...) called.
\* The call returns (exit code 0), raises an Exception (the FatalError of a
\* non-zero exit code), or ends in sys.exit (lines 239, 141-149: no asyncio, a
\* malformed hint rule; with hints only), which is no Exception.
RunCMake ==
    /\ pc = "cmake"
    /\ configured' = configured + 1
    /\ \E warn_uninitialized \in BOOLEAN, hints \in BOOLEAN :
           LET cmake_args == CMakeArgs(args.generator, warn_uninitialized,
                                       args.define_cache_entry)
           IN \/ \E raw \in BOOLEAN :
                     /\ cmakecache' = CMakeWrites(cmakecache, cmake_args, raw)
                     /\ pc' = "reparse"
                     /\ UNCHANGED outcome
              \/ \E left \in LeftByFailedCMake(cmakecache, cmake_args) :
                     /\ cmakecache' = remove_cache_after_exception(left)
                     /\ Raise("configure_failed", 7, <<>>)
              \/ \E left \in LeftByFailedCMake(cmakecache, cmake_args) :
                     /\ hints
                     /\ cmakecache' = cache_after_system_exit(left)
                     /\ Raise("system_exit", 7, <<>>)
    /\ UNCHANGED <<pureVars, runVars, worldVars, inputs, args, decision, cache_at_start,
                   sessions, prev, rel>>

\* Lines 464-475: the cache is parsed again; the generator is the one it records,
\* else the detected one; args.generator takes it when unset, and must equal it.
CheckGenerator ==
    /\ pc = "reparse"
    /\ LET cache == CacheOf(cmakecache)
           generator == IF <<"CMAKE_GENERATOR">> \in DOMAIN cache
                        THEN cache[<<"CMAKE_GENERATOR">>]
                        ELSE _detect_cmake_generator(on_path)
           requested == IF args.generator = None THEN generator ELSE args.generator
       IN IF generator = None
          THEN Raise("no_generator", 9, <<>>) /\ UNCHANGED args
          ELSE /\ args' = [args EXCEPT !.generator = requested]
               /\ IF generator # requested
                  THEN Raise("generator_mismatch", 9, <<>>)
                  ELSE pc' = "home" /\ UNCHANGED outcome
    /\ UNCHANGED <<pureVars, runVars, cmakecache, worldVars, inputs, decision, configured,
                   cache_at_start, sessions, prev, rel>>

\* A mutant of home_dir_mismatch: the recorded directory is never looked at.
home_dir_unchecked(cache) == FALSE

\* Lines 477-484: the cache records a source directory other than the project's.
home_dir_mismatch(cache) ==
    /\ <<"CMAKE_HOME_DIRECTORY">> \in DOMAIN cache
    /\ realpath(cache[<<"CMAKE_HOME_DIRECTORY">>]) # realpath(ProjectDir)

CheckHomeDir ==
    /\ pc = "home"
    /\ IF home_dir_mismatch(CacheOf(cmakecache))
       THEN Raise("home_dir_mismatch", 10, <<>>)
       ELSE pc' = "python" /\ UNCHANGED outcome
    /\ UNCHANGED <<pureVars, runVars, cmakecache, worldVars, inputs, args, decision, configured,
                   cache_at_start, sessions, prev, rel>>

\* Lines 486-493: the cache records an interpreter other than sys.executable.
python_mismatch(cache) ==
    /\ <<"PYTHON">> \in DOMAIN cache
    /\ cache[<<"PYTHON">>] # SysExecutable

CheckPython ==
    /\ pc = "python"
    /\ IF python_mismatch(CacheOf(cmakecache))
       THEN Raise("python_mismatch", 11, <<>>)
       ELSE pc' = "done" /\ outcome' = [kind |-> "success", step |-> 11, conflict |-> <<>>]
    /\ UNCHANGED <<pureVars, runVars, cmakecache, worldVars, inputs, args, decision, configured,
                   cache_at_start, sessions, prev, rel>>

Next ==
    \/ FirstSession
    \/ Rerun
    \/ RerunChanged
    \/ CheckCMake
    \/ VerifyProject
    \/ MakeBuildDir
    \/ CheckTarget
    \/ Decide
    \/ ResolveGenerator
    \/ RunCMake
    \/ CheckGenerator
    \/ CheckHomeDir
    \/ CheckPython

Spec == Init /\ [][Next]_vars

\* ---------------------------------------------------------------- RunSpec
\* One call of a RunTool object: __call__, run_command, the two
\* read_and_write_stream coroutines of asyncio.gather, and the tool, which
\* writes its bytes in the order of its program and blocks on a full pipe.

\* Most I/O faults (OSError on a log file or on the console) in one run.
MaxFaults == 1

\* len(buffer) > 4 of read_interactive_stream.
max_pending == 4

Say(s, bytes) == [i \in 1..Len(bytes) |-> <<s, bytes[i]>>]

Times(b, n) == [i \in 1..n |-> b]

\* n lines of one character.
Lines(n) == [i \in 1..(2 * n) |-> IF i % 2 = 1 THEN "m" ELSE NL]

\* What a tool may write: nothing; lines; a tail without line feed; a line
\* that begins with '[' and is as wide as the terminal; escape sequences alone, in a line, with an OSC
\* introducer, one inside the other; a line longer than the limit; more lines on stderr than the
\* pipe holds before anything on stdout; undecodable bytes.
ToolPrograms ==
    { <<>>,
      Say("stdout", <<"m", NL>>),
      Say("stderr", <<"m", NL>>) \o Say("stdout", <<"m">>),
      Say("stdout", <<"[">> \o Times("m", TerminalWidth - 1) \o <<NL>>)
          \o Say("stderr", <<"m", NL>>),
      Say("stdout", <<ESC, "[", "m">>),
      Say("stderr", <<ESC, "[", "m", NL>>),
      Say("stdout", <<ESC, "]", "m", NL>>),
      Say("stdout", <<ESC, ESC, "]", "]", NL>>),
      Say("stdout", Times("m", LineLimit + 1) \o <<NL>>),
      Say("stderr", Lines(PipeCap \div 2 + 1)) \o Say("stdout", <<"m", NL>>),
      Say("stdout", <<BAD, "m", NL>>),
      Say("stdout", Times(BAD, max_pending + 1) \o Times("m", PipeCap + 1)) }

ExitCodes == {0, 2}

\* hints.yml: no rule; a rule without variable sets; a rule with two variable
\* sets; a rule whose message names a placeholder.
RuleBases ==
    { <<>>,
      << [re |-> <<"m">>, hint |-> <<"found", SLOT>>, variables |-> <<>>] >>,
      << [re |-> <<SLOT>>, hint |-> <<"found", SLOT>>,
          variables |-> << [re_variables |-> << <<"m">> >>,
                            hint_variables |-> << <<"m">> >>],
                           [re_variables |-> << <<"[">> >>,
                            hint_variables |-> << <<"[">> >>] >>] >>,
      << [re |-> <<"m">>, hint |-> <<"found", NAMED>>, variables |-> <<>>] >> }

\* os.path.join(self.build_dir, 'log', f'idf_py_{stream}_output_{p.pid}')
LogPath(s) == <<"log", SLASH, "idf_py_", s, "_output_", "pid">>

RunInit ==
    /\ arg = <<>>
    /\ ret = <<>>
    /\ called = <<>>
    /\ NoBuild
    /\ runtool \in [hints : BOOLEAN, custom_error_handler : BOOLEAN,
                    interactive : BOOLEAN, force_progression : BOOLEAN,
                    verbose : BOOLEAN, isatty : BOOLEAN]
    /\ \E program \in ToolPrograms :
           proc = [state |-> "none", program |-> program, todo |-> program,
                   returncode |-> 0]
    /\ pipe = [s \in Streams |-> <<>>]
    /\ reader = [s \in Streams |-> NoReader]
    /\ logfile = [s \in Streams |-> NoLog]
    /\ console = [s \in Streams |-> <<>>]
    /\ runpc = "call"
    /\ scan = NoScan
    /\ printed = <<>>
    /\ handler_calls = <<>>
    /\ warnings = <<>>
    /\ faults = 0
    /\ result = NoResult

\* The bytes a program writes to stream s, each as one write.
WritesTo(program, s) ==
    LET mine == SelectSeq(program, LAMBDA w : w[1] = s)
    IN [i \in 1..Len(mine) |-> <<mine[i][2]>>]

\* Line 208: subprocess.run(self.args, ...) with the streams of this process;
\* the tool runs to its end.
CallWithoutHints ==
    /\ runpc = "call"
    /\ ~runtool.hints
    /\ \E code \in ExitCodes :
           proc' = [proc EXCEPT !.state = "exited", !.todo = <<>>, !.returncode = code]
    /\ console' = [s \in Streams |-> console[s] \o WritesTo(proc.todo, s)]
    /\ runpc' = "check"
    /\ UNCHANGED <<pureVars, buildVars, runtool, pipe, reader, logfile, scan, printed,
                   handler_calls, warnings, faults, result>>

\* Lines 206, 228-242: asyncio.run(self.run_command(...)) up to gather: the log
\* directory is made and the tool started with two pipes, or the event loop
\* cannot start a subprocess and sys.exit is called.
Spawn ==
    /\ runpc = "call"
    /\ runtool.hints
    /\ \/ /\ proc' = [proc EXCEPT !.state = "running"]
          /\ reader' = [s \in Streams |-> [reader[s] EXCEPT !.pc = "open"]]
          /\ runpc' = "gather"
          /\ UNCHANGED result
       \/ /\ result' = [kind |-> "SystemExit", code |-> 0, paths |-> <<>>]
          /\ runpc' = "done"
          /\ UNCHANGED <<proc, reader>>
    /\ UNCHANGED <<pureVars, buildVars, runtool, pipe, logfile, console, scan, printed,
                   handler_calls, warnings, faults>>

\* The tool writes the next byte of its program, when the pipe has room.
ToolWrite ==
    /\ proc.state = "running"
    /\ proc.todo # <<>>
    /\ LET s == Head(proc.todo)[1]
           b == Head(proc.todo)[2]
       IN /\ Len(pipe[s]) < PipeCap
          /\ pipe' = [pipe EXCEPT ![s] = Append(@, b)]
    /\ proc' = [proc EXCEPT !.todo = Tail(@)]
    /\ UNCHANGED <<pureVars, buildVars, runtool, reader, logfile, console, runpc, scan,
                   printed, handler_calls, warnings, faults, result>>

\* The tool has written everything and exits: both pipes are at their end.
ToolExit ==
    /\ proc.state = "running"
    /\ proc.todo = <<>>
    /\ \E code \in ExitCodes :
           proc' = [proc EXCEPT !.state = "exited", !.returncode = code]
    /\ UNCHANGED <<pureVars, buildVars, runtool, pipe, reader, logfile, console, runpc,
                   scan, printed, handler_calls, warnings, faults, result>>

\* The stream of s is at its end: the tool has exited and the pipe is read out.
AtEof(s) == proc.state = "exited"

Ends(s, how, why) == [reader[s] EXCEPT !.pc = how, !.end = why, !.buffer = <<>>]

\* Lines 312-314: a RuntimeError or EnvironmentError ends this reader, which
\* has read the chunks read, with a warning.
Abort(s, read) ==
    /\ faults < MaxFaults
    /\ faults' = faults + 1
    /\ warnings' = Append(warnings, s)
    /\ reader' = [reader EXCEPT ![s] =
                      [pc |-> "aborted", buffer |-> <<>>, chunks |-> read, end |-> "fault"]]

\* A mutant of log_write: the write replaces what the file holds.
log_write_over(s, text) == [logfile EXCEPT ![s].text = text]

\* Line 298: output_file.write(output_noescape).
log_write(s, text) == [logfile EXCEPT ![s].text = @ \o text]

\* print_progression(output): '\x1b[K' and '\r' go to sys.stdout, the fitted
\* line to output_stream.
print_progression(s, output) ==
    [t \in Streams |->
        console[t]
        \o (IF t = "stdout" THEN << <<ESC, "[", "K">>, <<"\r">> >> ELSE <<>>)
        \o (IF t = s THEN <<fit_text_in_terminal(strip_newlines(output))>> ELSE <<>>)]

\* Line 289: open(output_filename, 'w') makes the log file.
ReaderOpen(s) ==
    /\ runpc = "gather"
    /\ reader[s].pc = "open"
    /\ \/ /\ logfile' = [logfile EXCEPT ![s] = LogFile(<<>>)]
          /\ reader' = [reader EXCEPT ![s].pc = "reading"]
          /\ UNCHANGED <<faults, warnings>>
       \/ Abort(s, <<>>) /\ UNCHANGED logfile
    /\ UNCHANGED <<pureVars, buildVars, runtool, proc, pipe, console, runpc, scan,
                   printed, handler_calls, result>>

\* Lines 296-311 for a chunk that is not empty: it is written to the log file
\* without its escape sequences, then to the console; either write may fail.
Deliver(s, output) ==
    LET output_noescape == delete_ansi_escape(output)
        shown == IF ~runtool.isatty THEN output_noescape ELSE output
        logged == log_write(s, output_noescape)
        read == [reader[s] EXCEPT !.chunks = Append(@, output), !.buffer = <<>>]
    IN \/ /\ logfile' = logged
          /\ IF runtool.force_progression /\ shown = <<>>
             THEN /\ reader' = [reader EXCEPT ![s] =
                                    [read EXCEPT !.pc = "raised", !.end = "IndexError"]]
                  /\ UNCHANGED console
             ELSE /\ reader' = [reader EXCEPT ![s] = read]
                  /\ console' =
                         IF runtool.force_progression /\ shown[1] = "["
                            /\ ~runtool.verbose /\ runtool.isatty
                         THEN print_progression(s, shown)
                         ELSE [console EXCEPT ![s] = Append(@, shown)]
          /\ UNCHANGED <<faults, warnings>>
       \/ Abort(s, read.chunks) /\ UNCHANGED <<logfile, console>>
       \/ Abort(s, read.chunks) /\ logfile' = logged /\ UNCHANGED console

\* One turn of the loop with read_stream (lines 263-271): a line, or what is
\* left at the end of the stream, decoded with errors='ignore'; an empty chunk
\* ends the loop; readline's ValueError is not caught.
ReaderLine(s) ==
    /\ runpc = "gather"
    /\ reader[s].pc = "reading"
    /\ ~runtool.interactive
    /\ LET r == readline(pipe[s], AtEof(s))
       IN /\ r.kind # "wait"
          /\ IF r.kind = "ValueError"
             THEN /\ reader' = [reader EXCEPT ![s] = Ends(s, "raised", "ValueError")]
                  /\ UNCHANGED <<pipe, logfile, console, faults, warnings>>
             ELSE /\ pipe' = [pipe EXCEPT ![s] = r.rest]
                  /\ IF decode_ignore(r.data) = <<>>
                     THEN /\ reader' = [reader EXCEPT ![s] =
                                 Ends(s, "done", IF r.data = <<>> THEN "eof" ELSE "empty")]
                          /\ UNCHANGED <<logfile, console, faults, warnings>>
                     ELSE Deliver(s, decode_ignore(r.data))
    /\ UNCHANGED <<pureVars, buildVars, runtool, proc, runpc, scan, printed,
                   handler_calls, result>>

\* One read(1) of read_interactive_stream (lines 273-286): no byte at the end
\* of the stream ends the loop; a byte that completes a decodable text gives a
\* chunk; else the byte is kept, and more than four kept bytes are decoded
\* with errors='ignore', which may leave an empty chunk, and that ends the loop.
ReaderByte(s) ==
    /\ runpc = "gather"
    /\ reader[s].pc = "reading"
    /\ runtool.interactive
    /\ IF pipe[s] = <<>>
       THEN /\ AtEof(s)
            /\ reader' = [reader EXCEPT ![s] = Ends(s, "done", "eof")]
            /\ UNCHANGED <<pipe, logfile, console, faults, warnings>>
       ELSE LET pending == Append(reader[s].buffer, Head(pipe[s]))
            IN /\ pipe' = [pipe EXCEPT ![s] = Tail(@)]
               /\ IF ~decode_fails(pending)
                  THEN Deliver(s, pending)
                  ELSE IF Len(pending) > max_pending
                  THEN IF decode_ignore(pending) = <<>>
                       THEN /\ reader' = [reader EXCEPT ![s] = Ends(s, "done", "empty")]
                            /\ UNCHANGED <<logfile, console, faults, warnings>>
                       ELSE Deliver(s, decode_ignore(pending))
                  ELSE /\ reader' = [reader EXCEPT ![s].buffer = pending]
                       /\ UNCHANGED <<logfile, console, faults, warnings>>
    /\ UNCHANGED <<pureVars, buildVars, runtool, proc, runpc, scan, printed,
                   handler_calls, result>>

\* A mutant of GatherReturns: gather returns with the first coroutine that has
\* returned.
gather_returns_after_first ==
    /\ runpc = "gather"
    /\ \E s \in Streams : reader[s].pc \in {"done", "aborted"}
    /\ runpc' = "wait"
    /\ UNCHANGED <<pureVars, buildVars, runtool, proc, pipe, reader, logfile, console,
                   scan, printed, handler_calls, warnings, faults, result>>

\* Lines 244-246: asyncio.gather returns when both coroutines have returned.
GatherReturns ==
    /\ runpc = "gather"
    /\ \A s \in Streams : reader[s].pc \in {"done", "aborted"}
    /\ runpc' = "wait"
    /\ UNCHANGED <<pureVars, buildVars, runtool, proc, pipe, reader, logfile, console,
                   scan, printed, handler_calls, warnings, faults, result>>

\* An exception out of a coroutine leaves gather, run_command, asyncio.run
\* (which cancels the other coroutine) and __call__.
GatherRaises ==
    /\ runpc = "gather"
    /\ \E s \in Streams :
           /\ reader[s].pc = "raised"
           /\ result' = [kind |-> reader[s].end, code |-> 0, paths |-> <<>>]
           /\ reader' = [t \in Streams |->
                            IF reader[t].pc \in {"open", "reading"}
                            THEN Ends(t, "cancelled", "cancelled") ELSE reader[t]]
    /\ runpc' = "done"
    /\ UNCHANGED <<pureVars, buildVars, runtool, proc, pipe, logfile, console, scan,
                   printed, handler_calls, warnings, faults>>

\* Lines 247-248: await p.wait(), then run_command returns the process and the
\* two paths.
Wait ==
    /\ runpc = "wait"
    /\ proc.state = "exited"
    /\ runpc' = "check"
    /\ UNCHANGED <<pureVars, buildVars, runtool, proc, pipe, reader, logfile, console,
                   scan, printed, handler_calls, warnings, faults, result>>

\* A mutant of OutputFiles: the two paths, with hints and without.
output_files_always_paths == <<LogPath("stderr"), LogPath("stdout")>>

\* stderr_output_file and stdout_output_file of __call__: the two paths with
\* hints, None without.
OutputFiles ==
    IF runtool.hints THEN <<LogPath("stderr"), LogPath("stdout")>> ELSE <<None, None>>

Returned == [kind |-> "returned", code |-> 0, paths |-> <<>>]

\* A mutant of handler_given: the handler is asked only when there are log files.
handler_needs_files == runtool.custom_error_handler /\ runtool.hints

\* self.custom_error_handler is set.
handler_given == runtool.custom_error_handler

\* Lines 210-223: return on exit code 0; else the handler, if there is one; else
\* the hint scan, if there are log file paths; else FatalError with the code.
Check ==
    /\ runpc = "check"
    /\ IF proc.returncode = 0
       THEN /\ result' = Returned
            /\ runpc' = "done"
            /\ UNCHANGED <<handler_calls, scan>>
       ELSE IF handler_given
       THEN /\ handler_calls' = Append(handler_calls, <<proc.returncode>> \o OutputFiles)
            /\ result' = Returned
            /\ runpc' = "done"
            /\ UNCHANGED scan
       ELSE IF Truthy(OutputFiles[1]) /\ Truthy(OutputFiles[2])
       THEN /\ \E hints \in RuleBases :
                   scan' = generate_hints(hints, <<logfile["stderr"], logfile["stdout"]>>)
            /\ runpc' = "hints"
            /\ UNCHANGED <<handler_calls, result>>
       ELSE /\ result' = [kind |-> "FatalError", code |-> proc.returncode, paths |-> <<>>]
            /\ runpc' = "done"
            /\ UNCHANGED <<handler_calls, scan>>
    /\ UNCHANGED <<pureVars, buildVars, runtool, proc, pipe, reader, logfile, console,
                   printed, warnings, faults>>

\* Lines 218-219: the next hint of the generator is printed.
PrintHint ==
    /\ runpc = "hints"
    /\ Len(printed) < Len(scan.yielded)
    /\ printed' = Append(printed, scan.yielded[Len(printed) + 1])
    /\ UNCHANGED <<pureVars, buildVars, runtool, proc, pipe, reader, logfile, console,
                   runpc, scan, handler_calls, warnings, faults, result>>

\* Lines 220-221: the generator is exhausted and FatalError raised with the
\* code and the two paths; or the generator raised.
EndHints ==
    /\ runpc = "hints"
    /\ Len(printed) = Len(scan.yielded)
    /\ result' = IF scan.raised = "none"
                 THEN [kind |-> "FatalError", code |-> proc.returncode,
                       paths |-> OutputFiles]
                 ELSE [kind |-> scan.raised, code |-> 0, paths |-> <<>>]
    /\ runpc' = "done"
    /\ UNCHANGED <<pureVars, buildVars, runtool, proc, pipe, reader, logfile, console,
                   scan, printed, handler_calls, warnings, faults>>

RunNext ==
    \/ CallWithoutHints
    \/ Spawn
    \/ ToolWrite
    \/ ToolExit
    \/ \E s \in Streams : ReaderOpen(s)
    \/ \E s \in Streams : ReaderLine(s)
    \/ \E s \in Streams : ReaderByte(s)
    \/ GatherReturns
    \/ GatherRaises
    \/ Wait
    \/ Check
    \/ PrintHint
    \/ EndHints

RunSpec == RunInit /\ [][RunNext]_vars

\* ------------------------------------------------------------------- claims
Ended == pc \in {"done", "fatal"}

\* The generator was not asked for and none of GENERATORS answers its probe:
\* line 438 raises before the configure tool is called.
ProbeFailedInStep7 ==
    /\ outcome.kind = "no_generator"
    /\ outcome.step = 7
    /\ inputs.generator = None
    /\ _detect_cmake_generator(on_path) = None

\* The decision was to reconfigure, and the configure tool is about to be
\* called, was called, or the generator probe before it failed.
ReconfigureFollowed ==
    /\ decision = "reconfigure"
    /\ \/ pc \in {"generator", "cmake"}
       \/ configured = 1
       \/ ProbeFailedInStep7

\* C2 (as stated): a session that reached the decision without a cache file has
\* run the configure tool when it ends, whatever the entries and the force flag.
C2_AbsentCacheConfigures ==
    (Ended /\ decision # "none" /\ ~cache_at_start.exists) => configured = 1

\* C2 (amended): a session that reaches the decision without a cache file
\* decides to reconfigure, whatever the entries and the force flag, and calls
\* the configure tool once, unless no generator was asked for and the probe for
\* one fails, which ends the session before the tool is called.
C2_AbsentCacheReconfigures ==
    (decision # "none" /\ ~cache_at_start.exists) => ReconfigureFollowed

C2_Witness ==
    /\ pc = "done"
    /\ ~cache_at_start.exists
    /\ ~inputs.always_run_cmake
    /\ inputs.define_cache_entry = <<>>
    /\ configured = 1

\* The first of two runs starts without a cache file and returns: it has called
\* the configure tool once.  The second has the same command line, is not
\* forced, and finds every proposed entry recorded: it does not call it.
OnceOnTheFirstRunOnly ==
    /\ (rel.kind = "first" /\ pc = "done" /\ ~cache_at_start.exists) => configured = 1
    /\ (rel.kind = "same" /\ ~inputs.always_run_cmake /\ prev.ok /\ prev.recorded)
           => configured = 0

\* The value of the changed entry, de-quoted, is not what the cache records.
ChangedValueIsNew ==
    LET e == SplitEntry(rel.entry)
    IN DictGet(CacheOf(cache_at_start), e.key) # _strip_quotes(e.value)

\* C4 (as stated): two runs with unchanged inputs call the configure tool once,
\* in the first run only; a later run with the value of one proposed entry
\* changed decides to reconfigure.
C4_OnceThenAgainOnChange ==
    /\ OnceOnTheFirstRunOnly
    /\ (rel.kind = "one_changed" /\ decision # "none") => decision = "reconfigure"

\* C4 (amended): two runs with unchanged inputs call the configure tool once, in
\* the first run only; a later run with one proposed entry changed to a value
\* that, de-quoted, differs from the recorded one decides to reconfigure when it
\* reaches the decision, and calls the configure tool unless the generator probe
\* fails.  (A change of quoting alone, FOO=a to FOO='a', is no change.)
C4_OnceThenAgainOnNewValue ==
    /\ OnceOnTheFirstRunOnly
    /\ (rel.kind = "one_changed" /\ decision # "none" /\ ChangedValueIsNew)
           => ReconfigureFollowed
    /\ (rel.kind = "one_changed" /\ decision # "none" /\ ~ChangedValueIsNew
          /\ ~inputs.always_run_cmake /\ prev.recorded)
           => decision = "keep"

C4_Witness ==
    /\ pc = "done"
    /\ rel.kind = "one_changed"
    /\ ~inputs.always_run_cmake
    /\ prev.configured = 1
    /\ prev.recorded
    /\ ChangedValueIsNew
    /\ configured = 1

\* C5 (as stated): whenever step 7 ends with an exception, the failed generator
\* probe included, there is no cache file when the exception leaves.
C5_ExceptionInStep7RemovesCache ==
    (pc = "fatal" /\ outcome.step = 7) => ~cmakecache.exists

\* C5 (amended): when the call of the configure tool raises an Exception, there
\* is no cache file when it leaves ensure_build_directory; a failed generator
\* probe (line 438, before the try) leaves the cache file as the session found
\* it, and a SystemExit out of RunTool leaves it as the tool left it.
C5_FailedConfigureRemovesCache ==
    /\ outcome.kind = "configure_failed" => ~cmakecache.exists
    /\ (outcome.kind = "no_generator" /\ outcome.step = 7) => cmakecache = cache_at_start

C5_Witness ==
    /\ pc = "fatal"
    /\ outcome.kind = "configure_failed"
    /\ cache_at_start.exists
    /\ ~cmakecache.exists

\* The session got as far as the target check with no environment target and a
\* cache whose IDF_TARGET is not the target the sdkconfig declares.
CacheDisagreesWithConfig ==
    /\ Ended
    /\ outcome.step >= 5
    /\ environ_target = None
    /\ cache_at_start.exists
    /\ Truthy(DictGet(CacheOf(cache_at_start), <<"IDF_TARGET">>))
    /\ DeclaredTarget(sdkconfig_txt) # <<>>
    /\ DictGet(CacheOf(cache_at_start), <<"IDF_TARGET">>) # DeclaredTarget(sdkconfig_txt)

\* C9: with no environment target and a cache whose IDF_TARGET differs from the
\* target the sdkconfig declares, the session ends in a fatal conflict whose
\* message holds both values and offers fullclean and set-target, and the
\* configure tool is not called.
C9_CacheVsConfigConflict ==
    CacheDisagreesWithConfig =>
        /\ pc = "fatal"
        /\ outcome.kind = "target_conflict"
        /\ outcome.conflict.kind = "cache_vs_config"
        /\ \E i \in 1..2 : Mentions(outcome.conflict.values[i],
                                    DictGet(CacheOf(cache_at_start), <<"IDF_TARGET">>))
        /\ \E i \in 1..2 : Mentions(outcome.conflict.values[i],
                                    DeclaredTarget(sdkconfig_txt))
        /\ {"fullclean", "set-target"} \subseteq outcome.conflict.remedies
        /\ configured = 0
        /\ cmakecache = cache_at_start

C9_Witness ==
    /\ CacheDisagreesWithConfig
    /\ outcome.kind = "target_conflict"
    /\ DeclaredTarget(sdkconfig_txt) = <<"esp32s3">>
    /\ DictGet(CacheOf(cache_at_start), <<"IDF_TARGET">>) = <<"esp32">>

\* C10: when ensure_build_directory returns, args.generator is set and is the
\* CMAKE_GENERATOR the cache records if it records one, the CMAKE_HOME_DIRECTORY
\* it records is the project directory under realpath, and the PYTHON it
\* records is sys.executable; a session that finds one of these otherwise ends
\* in a FatalError.
C10_SuccessMeansConsistent ==
    pc = "done" =>
        LET cache == CacheOf(cmakecache)
        IN /\ outcome.kind = "success"
           /\ args.generator # None
           /\ <<"CMAKE_GENERATOR">> \in DOMAIN cache
                  => cache[<<"CMAKE_GENERATOR">>] = args.generator
           /\ <<"CMAKE_HOME_DIRECTORY">> \in DOMAIN cache
                  => realpath(cache[<<"CMAKE_HOME_DIRECTORY">>]) = realpath(ProjectDir)
           /\ <<"PYTHON">> \in DOMAIN cache => cache[<<"PYTHON">>] = SysExecutable

C10_Witness ==
    /\ pc = "done"
    /\ decision = "keep"
    /\ inputs.generator = None
    /\ args.generator = <<"Ninja">>
    /\ DictGet(CacheOf(cmakecache), <<"CMAKE_HOME_DIRECTORY">>) = LinkToProjectDir
    /\ DictGet(CacheOf(cmakecache), <<"PYTHON">>) = SysExecutable

\* ------------------------------------------------------- claims of RunTool
\* The call of the RunTool object has ended, by a return or by an exception.
RunEnded == runpc = "done"

\* The tool exited with a code other than 0.
ToolFailed == proc.state = "exited" /\ proc.returncode # 0

BothPaths == <<LogPath("stderr"), LogPath("stdout")>>

\* C11 (as stated): when the tool of a run with hints and without a custom
\* handler has exited with a code other than 0, the run ends with the tool
\* failure that carries the code and both log file paths, and every hint
\* generate_hints yields for the two log files was printed before.
C11_FailureNamesCodeAndLogs ==
    (RunEnded /\ runtool.hints /\ ~runtool.custom_error_handler /\ ToolFailed) =>
        /\ result = [kind |-> "FatalError", code |-> proc.returncode, paths |-> BothPaths]
        /\ printed = scan.yielded
        /\ scan.raised = "none"

\* C12 (as stated): when a custom handler is given and the tool has exited with
\* a code other than 0, the handler was called exactly once, with the code and
\* both log file paths, no hint scan was made and the run returned; after an
\* exit with code 0 the handler was not called.
C12_HandlerOwnsFailure ==
    /\ (RunEnded /\ runtool.custom_error_handler /\ ToolFailed) =>
           /\ handler_calls = << <<proc.returncode>> \o BothPaths >>
           /\ scan = NoScan
           /\ printed = <<>>
           /\ result = Returned
    /\ (RunEnded /\ proc.state = "exited" /\ proc.returncode = 0) => handler_calls = <<>>

\* The case of C12 in which there are log files: runs with hints enabled.
C12_HandlerOwnsFailureWithLogs == runtool.hints => C12_HandlerOwnsFailure

\* The tool wrote something to stream s.
Produced(s) == WritesTo(proc.program, s) # <<>>

\* C13 (as stated, for runs without a fault of the log files or the console):
\* when the tool of a run with hints has exited with code 0, the run returned,
\* without a hint scan and without a call of the handler, both log files
\* exist, and the log file of a stream the tool wrote to is not empty.
C13_SuccessLeavesLogs ==
    (RunEnded /\ runtool.hints /\ proc.state = "exited" /\ proc.returncode = 0
     /\ faults = 0) =>
        /\ result = Returned
        /\ scan = NoScan
        /\ printed = <<>>
        /\ handler_calls = <<>>
        /\ \A s \in Streams :
               /\ logfile[s].exists
               /\ Produced(s) => logfile[s].text # <<>>

\* C14: in a run with hints disabled no reader is started, no log file is made
\* and no hint scan happens; the run returns when the exit code is 0, and when
\* it is not and there is no custom handler the run ends with the tool failure
\* that carries the code and no path.
C14_NoCaptureWithoutHints ==
    ~runtool.hints =>
        /\ \A s \in Streams : reader[s] = NoReader /\ logfile[s] = NoLog
        /\ scan = NoScan
        /\ printed = <<>>
        /\ RunEnded =>
               /\ proc.state = "exited"
               /\ proc.returncode = 0 => result = Returned
               /\ (proc.returncode # 0 /\ ~runtool.custom_error_handler) =>
                      result = [kind |-> "FatalError", code |-> proc.returncode,
                                paths |-> <<>>]

\* A run without hints ended with the tool failure, after the tool wrote to
\* the console.
C14_Witness ==
    /\ ~runtool.hints
    /\ RunEnded
    /\ result.kind = "FatalError"
    /\ console["stdout"] # <<>>

\* The coroutine read_and_write_stream of stream s has returned.
ReaderReturned(s) == reader[s].pc \in {"done", "aborted"}

\* run_command is at p.wait() or has returned: the exit status is being
\* collected or has been read.
StatusCollected ==
    \/ runpc \in {"wait", "check", "hints"}
    \/ RunEnded /\ result.kind \in {"returned", "FatalError"}

\* C15: in a run with hints enabled, run_command waits for the exit status,
\* returns, and __call__ reads the return code, only when the readers of both
\* streams have returned.
C15_StatusAfterBothReaders ==
    (runtool.hints /\ StatusCollected) => \A s \in Streams : ReaderReturned(s)

\* The exit status is read after both readers have read chunks.
C15_Witness ==
    /\ runtool.hints
    /\ runpc = "check"
    /\ \A s \in Streams : reader[s].chunks # <<>>

\* Everything the tool wrote was read, and both readers ended at the end of
\* their stream.
Drained ==
    /\ proc.state = "exited"
    /\ \A s \in Streams : pipe[s] = <<>> /\ reader[s].end = "eof"

\* The run has not ended and no step is left: the tool waits for room in a
\* pipe that no reader reads any more, and run_command waits for the tool or
\* for the reader of the other stream, which waits for the tool.
Blocked == ~RunEnded /\ ~ENABLED RunNext

\* C16 (as stated, for runs without a fault of the log files or the console):
\* in a run with hints, in line mode and in interactive mode, the run is never
\* blocked with the tool waiting on a full pipe, and when the run has ended the
\* tool has exited, both pipes are read out and both readers have reached the
\* end of their stream.
C16_DrainedNeverBlocked ==
    (runtool.hints /\ faults = 0) =>
        /\ ~Blocked
        /\ (RunEnded /\ result.kind # "SystemExit") => Drained

\* The two ways C16 fails: a reader of line mode raised out of the run before
\* the end of its stream, and a reader of interactive mode ended on undecodable
\* bytes and left the tool blocked.
C16_LineModeCrash ==
    /\ faults = 0 /\ ~runtool.interactive /\ ~runtool.force_progression
    /\ RunEnded /\ result.kind = "ValueError" /\ ~Drained

C16_InteractiveBlocked ==
    /\ faults = 0 /\ runtool.interactive
    /\ Blocked
    /\ proc.state = "running" /\ proc.todo # <<>>

\* What holds of C16 in line mode: without an I/O fault and without progress
\* redraw no run is blocked, and every run that does not end with readline's
\* ValueError is read out to the end of both streams.
C16_LineModeDrainedUnlessValueError ==
    (runtool.hints /\ faults = 0 /\ ~runtool.interactive /\ ~runtool.force_progression) =>
        /\ ~Blocked
        /\ (RunEnded /\ result.kind \notin {"SystemExit", "ValueError"}) => Drained

\* The reader of stream s ended on a fault: an OSError of the log file or the
\* console, or the ValueError of a read beyond the limit.
ReaderFaulted(s) == reader[s].end \in {"fault", "ValueError"}

\* C17 (as stated): when the reader of one stream ended on a fault, that reader
\* returned with a warning, the reader of the other stream was not stopped, no
\* step of the run is missing, and the run ends as the exit code decides: with
\* a return or with the tool failure.
C17_ReaderFaultIsLocal ==
    \A s \in Streams :
        ReaderFaulted(s) =>
            /\ reader[s].pc = "aborted"
            /\ \E i \in 1..Len(warnings) : warnings[i] = s
            /\ \A t \in Streams \ {s} : reader[t].pc # "cancelled"
            /\ ~Blocked
            /\ RunEnded => result.kind \in {"returned", "FatalError"}

\* The ways C17 fails: the ValueError of readline leaves the run; a reader
\* that gave up leaves the tool blocked on its pipe; after a failed open() the
\* hint scan does not find the log file.
C17_ValueErrorLeavesRun ==
    /\ faults = 0
    /\ RunEnded /\ result.kind = "ValueError"
    /\ \E t \in Streams : reader[t].pc = "cancelled"

C17_AbortedReaderBlocksTool == faults = 1 /\ ~runtool.interactive /\ Blocked

C17_ScanMissesLogFile == RunEnded /\ result.kind = "FileNotFoundError"

RECURSIVE Concat(_)
\* The texts of a sequence, one after the other.
Concat(texts) == IF texts = <<>> THEN <<>> ELSE Head(texts) \o Concat(Tail(texts))

\* The chunks read from stream s so far as the log file gets them, and as the
\* console gets them when they are written as they are.
AsLogged(s) == Concat([i \in 1..Len(reader[s].chunks) |->
                          delete_ansi_escape(reader[s].chunks[i])])

AsShown(s) == Concat([i \in 1..Len(reader[s].chunks) |->
                        IF runtool.isatty THEN reader[s].chunks[i]
                        ELSE delete_ansi_escape(reader[s].chunks[i])])

\* Progress redraw: force_progression, '-v' not in the arguments, a terminal.
ProgressRedraw == runtool.force_progression /\ ~runtool.verbose /\ runtool.isatty

\* C18 (as stated): at every point of a run with hints, the log file of a
\* stream holds the chunks read from it so far, in read order, and the console
\* of the stream was written the same chunks in the same order.
C18_WrittenInReadOrder ==
    runtool.hints =>
        \A s \in Streams :
            /\ logfile[s].exists => logfile[s].text = AsLogged(s)
            /\ Concat(console[s]) = AsShown(s)

\* C18: the log file of a stream whose reader met no I/O fault holds the
\* chunks read so far, without their escape sequences, in read order; outside
\* progress redraw the console of such a stream was written the same chunks,
\* in the same order, without their escape sequences when it is no terminal.
C18_WrittenInReadOrderUnlessRedrawn ==
    runtool.hints =>
        \A s \in Streams :
            reader[s].end # "fault" =>
                /\ logfile[s].exists => logfile[s].text = AsLogged(s)
                /\ ~ProgressRedraw => Concat(console[s]) = AsShown(s)

\* Both readers have written, one of them two chunks, outside progress redraw.
C18_Witness ==
    /\ runtool.hints /\ ~ProgressRedraw
    /\ \E s \in Streams : Len(reader[s].chunks) >= 2 /\ logfile[s].text # <<>>
    /\ \A s \in Streams : console[s] # <<>> /\ reader[s].end # "fault"

\* In progress redraw, and without an I/O fault, the console of stdout was
\* written the line that begins with '[' with its middle cut out, after the
\* bytes that clear the line.
C18_RedrawnDiffers ==
    /\ runtool.hints /\ ProgressRedraw /\ faults = 0
    /\ Concat(console["stderr"]) = AsShown("stderr")
    /\ Concat(console["stdout"]) # AsShown("stdout")
    /\ \E i \in 1..Len(Concat(console["stdout"])) : Concat(console["stdout"])[i] = "."

\* C19 (as stated): no log file ever holds an escape sequence, in line mode and
\* in interactive mode.
C19_LogsWithoutEscapes ==
    \A s \in Streams : ~HasAnsiEscape(logfile[s].text)

\* In line mode, without an I/O fault, the run has ended and a log file holds
\* the escape sequence that is left when the one inside it is removed.
C19_LineModeLogsEscape ==
    /\ ~runtool.interactive /\ faults = 0 /\ RunEnded
    /\ logfile["stdout"].text = <<ESC, "]", NL>>

\* In interactive mode, without an I/O fault, the run has ended and a log file
\* holds the escape sequence the tool wrote.
C19_InteractiveLogsEscape ==
    /\ runtool.interactive /\ faults = 0 /\ RunEnded
    /\ logfile["stdout"].text = <<ESC, "[", "m">>

\* ---------------------------------------------------------------- HintSpec
\* generate_hints applied to a rule database and a list of files.

\* Most rules of a database and most files of a call.
MaxRules == 2
MaxFiles == 2

\* Rules: a plain one; one with two variable sets; one whose pattern spans two
\* lines of the file; and malformed ones: a named placeholder in the message,
\* an invalid pattern, a variable set without 'hint_variables', a pattern with
\* more placeholders than fill-ins, a message with more placeholders than
\* fill-ins, no 'hint'.
HintRules ==
    { [re |-> <<"m">>, hint |-> <<"found">>, variables |-> <<>>],
      [re |-> <<SLOT>>, hint |-> <<"found", SLOT>>,
       variables |-> << [re_variables |-> << <<"m">> >>, hint_variables |-> << <<"m">> >>],
                        [re_variables |-> << <<"[">> >>, hint_variables |-> << <<"[">> >>] >>],
      [re |-> <<"m", SP, "m">>, hint |-> <<"twice">>, variables |-> <<>>],
      [re |-> <<"m">>, hint |-> <<"found", NAMED>>, variables |-> <<>>],
      [re |-> <<UNBALANCED>>, hint |-> <<"found">>, variables |-> <<>>],
      [re |-> <<SLOT>>, hint |-> <<"found">>,
       variables |-> << [re_variables |-> << <<"m">> >>, hint_variables |-> Missing] >>],
      [re |-> <<SLOT, SLOT>>, hint |-> <<"found">>,
       variables |-> << [re_variables |-> << <<"m">> >>, hint_variables |-> <<>>] >>],
      [re |-> <<SLOT>>, hint |-> <<SLOT, SLOT>>,
       variables |-> << [re_variables |-> << <<"m">> >>, hint_variables |-> << <<"m">> >>] >>],
      [re |-> <<"m">>, hint |-> Missing, variables |-> <<>>] }

\* Files: empty; one line; two lines; two lines with a blank one between; and
\* a path with no file.
HintFiles ==
    { LogFile(<<>>), LogFile(<<"m", NL>>), LogFile(<<"[", NL, "m", NL>>),
      LogFile(<<"m", NL, SP, NL, "m">>), NoLog }

HintInit ==
    /\ arg \in [hints : SeqsUpTo(HintRules, MaxRules),
                files : SeqsUpTo(HintFiles, MaxFiles)]
    /\ ret = <<>>
    /\ called = <<>>
    /\ NoSession

\* ret[1] is what the generator yields and how it ends.
HintCall ==
    /\ called = <<>>
    /\ ret' = <<generate_hints(arg.hints, arg.files)>>
    /\ called' = <<"generate_hints">>
    /\ UNCHANGED <<arg, buildVars, runVars>>

HintNext == HintCall

HintSpec == HintInit /\ [][HintNext]_vars

\* The pattern of rule hint, filled with the fill-ins of its variable set k (as
\* it is for k = 0, a rule without variable sets), is found in output.
SetMatches(hint, k, output) ==
    LET regex == IF k = 0 THEN [raised |-> "none", text |-> hint.re]
                 ELSE str_format(hint.re, hint.variables[k].re_variables)
    IN /\ hint.re # Missing
       /\ k # 0 => hint.variables[k].re_variables # Missing
       /\ regex.raised = "none"
       /\ ~re_error(regex.text)
       /\ Occurs(regex.text, output)

\* The matching pairs of rule and variable set, file by file: <<f, r, k>> for
\* set k of rule r (k = 0: rule r has no variable sets) that matches file f.
MatchingPairs(hints, files) ==
    LET all == UNION { { <<f, r, k>> : k \in 0..Len(hints[r].variables) } :
                       <<f, r>> \in (1..Len(files)) \X (1..Len(hints)) }
    IN { t \in all :
           /\ files[t[1]].exists
           /\ t[3] = 0 <=> hints[t[2]].variables = <<>>
           /\ SetMatches(hints[t[2]], t[3], flatten(files[t[1]].text)) }

Slots(template) == Cardinality({i \in 1..Len(template) : template[i] = SLOT})

\* The template has a placeholder that the fill-ins do not give: a named one,
\* or more positional ones than there are fill-ins.
Unfilled(template, fill_ins) ==
    \/ \E i \in 1..Len(template) : template[i] = NAMED
    \/ fill_ins = Missing
    \/ Slots(template) > Len(fill_ins)

\* The pattern of the rule references a fill-in its variable set lacks, or is
\* no regular expression.
MalformedPattern(hint) ==
    /\ hint.re # Missing
    /\ \/ re_error(hint.re)
       \/ \E k \in 1..Len(hint.variables) :
              Unfilled(hint.re, hint.variables[k].re_variables)
       \/ hint.variables = <<>> /\ Unfilled(hint.re, <<>>)

\* The message of the rule references a placeholder that is not available: for
\* a rule without variable sets the one fill-in is extra_info.
MalformedMessage(hint) ==
    /\ hint.hint # Missing
    /\ \/ \E k \in 1..Len(hint.variables) :
              Unfilled(hint.hint, hint.variables[k].hint_variables)
       \/ hint.variables = <<>> /\ Unfilled(hint.hint, << <<>> >>)

\* A scan of at least one file, all of them there, with a database in which
\* rule r is the first that is malformed or lacks its message.
FirstFaultyRule(r) ==
    /\ called # <<>>
    /\ arg.files # <<>>
    /\ \A f \in 1..Len(arg.files) : arg.files[f].exists
    /\ r \in 1..Len(arg.hints)
    /\ \A q \in 1..(r - 1) :
           /\ ~MalformedPattern(arg.hints[q]) /\ ~MalformedMessage(arg.hints[q])
           /\ arg.hints[q].hint # Missing /\ arg.hints[q].re # Missing

\* C21 (as stated): a scan whose database holds a malformed rule, with variable
\* sets or without, ends with the report on the error stream and sys.exit: the
\* rule is not skipped.
C21_MalformedRuleReported ==
    \A r \in 1..Len(arg.hints) :
        (FirstFaultyRule(r)
         /\ (MalformedPattern(arg.hints[r]) \/ MalformedMessage(arg.hints[r])))
        => ret[1].raised = "SystemExit"

\* The ways C21 fails: a rule with a malformed message that matches no file is
\* skipped without a word, with variable sets and without; a rule that lacks a
\* positional fill-in ends the scan with IndexError, and one without variable
\* sets whose message names a placeholder with KeyError, neither reported.
C21_SkippedWithVariables ==
    /\ FirstFaultyRule(1) /\ MalformedMessage(arg.hints[1])
    /\ ~MalformedPattern(arg.hints[1]) /\ arg.hints[1].variables # <<>>
    /\ Len(arg.hints) = 1 /\ ret[1].raised = "none"

C21_SkippedWithoutVariables ==
    /\ FirstFaultyRule(1) /\ MalformedMessage(arg.hints[1])
    /\ ~MalformedPattern(arg.hints[1]) /\ arg.hints[1].variables = <<>>
    /\ Len(arg.hints) = 1 /\ ret[1].raised = "none"

C21_IndexErrorNotReported ==
    /\ FirstFaultyRule(1) /\ MalformedPattern(arg.hints[1])
    /\ ret[1].raised = "IndexError"

C21_KeyErrorNotReported ==
    /\ FirstFaultyRule(1) /\ MalformedMessage(arg.hints[1])
    /\ ret[1].raised = "KeyError"

\* What holds of C21: a rule whose pattern is malformed always ends the scan,
\* with the report and sys.exit or with IndexError.
C21_MalformedPatternEndsScan ==
    \A r \in 1..Len(arg.hints) :
        (FirstFaultyRule(r) /\ MalformedPattern(arg.hints[r]))
        => ret[1].raised \in {"SystemExit", "IndexError"}

\* C22 (as stated): in interactive mode the loop of a reader ends only at the
\* end of its stream, with every byte the tool wrote read, or on a fault, never
\* on the bytes it received.
C22_InteractiveLoopEndsAtEof ==
    runtool.interactive =>
        \A s \in Streams :
            reader[s].pc = "done" =>
                /\ reader[s].end = "eof"
                /\ proc.state = "exited"
                /\ pipe[s] = <<>>

\* The reader of stdout ended on five undecodable bytes while the tool still
\* runs, without an I/O fault.
C22_EndedOnContent ==
    /\ runtool.interactive /\ faults = 0
    /\ reader["stdout"].pc = "done" /\ reader["stdout"].end = "empty"
    /\ proc.state = "running"

\* The run of an interactive tool ended with the stream read to its end, and
\* the text after an undecodable byte is neither in the log file nor on the
\* console: the bytes pending at the end of the stream are dropped.
C22_PendingBytesDropped ==
    /\ runtool.interactive /\ faults = 0 /\ RunEnded
    /\ proc.program = Say("stdout", <<BAD, "m", NL>>)
    /\ reader["stdout"].end = "eof"
    /\ logfile["stdout"].text = <<>> /\ console["stdout"] = <<>>

\* ------------------------------------------------- claims of steps 9 to 11
\* g is the effective generator of step 9: the CMAKE_GENERATOR the cache file
\* records, or, when it records none, the first of GENERATORS whose version
\* command runs.
IsEffectiveGenerator(g) ==
    LET cache == CacheOf(cmakecache)
    IN IF <<"CMAKE_GENERATOR">> \in DOMAIN cache
       THEN g = cache[<<"CMAKE_GENERATOR">>]
       ELSE \E i \in 1..Len(GENERATORS) :
                /\ g = GENERATORS[i]
                /\ g \in on_path
                /\ \A j \in 1..(i - 1) : GENERATORS[j] \notin on_path

\* Step 9 is taken with the generator `requested`: without an effective
\* generator it is fatal; an unset request adopts the effective generator; the
\* mismatch is raised exactly when the request is set and differs from it.
Step9With(requested) ==
    pc = "reparse" =>
        IF ~\E g \in on_path \cup {CacheOf(cmakecache)[k] : k \in DOMAIN CacheOf(cmakecache)} :
               IsEffectiveGenerator(g)
        THEN pc' = "fatal" /\ outcome'.kind = "no_generator"
        ELSE \E g \in on_path \cup {CacheOf(cmakecache)[k] : k \in DOMAIN CacheOf(cmakecache)} :
                 /\ IsEffectiveGenerator(g)
                 /\ requested = None => (args'.generator = g /\ pc' = "home")
                 /\ (pc' = "fatal" /\ outcome'.kind = "generator_mismatch")
                        <=> (requested # None /\ requested # g)
                 /\ pc' \in {"fatal", "home"}
                 /\ pc' = "fatal" => outcome'.kind = "generator_mismatch"

\* C23: step 9 with args.generator, as it stands when the step is reached, as
\* the caller's requested generator.
C23_Step9Generator == [][Step9With(args.generator)]_vars

\* Step 9 with the generator of the command line as the requested one.
C23_Step9CommandLineGenerator == [][Step9With(inputs.generator)]_vars

\* Step 9 adopted the first generator that runs, the cache recording none,
\* both generators being on the PATH.
C23_Witness ==
    /\ pc = "home"
    /\ inputs.generator = None
    /\ <<"CMAKE_GENERATOR">> \notin DOMAIN CacheOf(cmakecache)
    /\ on_path = {<<"Ninja">>, <<"Unix Makefiles">>}
    /\ args.generator = <<"Ninja">>

\* Step 9 raised the mismatch for a generator given on the command line.
C23_WitnessMismatch ==
    /\ pc = "fatal" /\ outcome.kind = "generator_mismatch"
    /\ inputs.generator # None

\* This step ends the session with a fatal outcome.
BecomesFatal == pc # "fatal" /\ pc' = "fatal"

\* C24: a step of ensure_build_directory removes the cache file only when the
\* configure step raised; every other fatal outcome leaves the file as it was
\* when the outcome arose (after sys.exit out of the configure tool: a file
\* that was there is still there), and one of a step before step 7 leaves it
\* as the session found it, with no configure run.
C24_CacheRemovedOnlyByFailedConfigure ==
    [][/\ (cmakecache.exists /\ ~cmakecache'.exists) =>
              (BecomesFatal /\ outcome'.kind = "configure_failed")
       /\ (BecomesFatal /\ outcome'.kind \notin {"configure_failed", "system_exit"}) =>
              cmakecache' = cmakecache
       /\ (BecomesFatal /\ outcome'.step < 7) =>
              (configured' = 0 /\ cmakecache' = cache_at_start)]_vars

\* A mismatch of steps 9 to 11 ended the session and the cache file is there,
\* as the session found it.
C24_Witness ==
    /\ pc = "fatal"
    /\ outcome.step >= 9
    /\ cmakecache.exists
    /\ cmakecache = cache_at_start

\* sys.exit out of the configure tool ended the session, and the cache file
\* the session found is there.
C24_WitnessSystemExit ==
    /\ pc = "fatal" /\ outcome.kind = "system_exit"
    /\ cache_at_start.exists /\ cmakecache.exists

\* ---------------------------------------------------------- RunTargetSpec
\* Calls of run_target in one session of the program: ret holds the argument
\* lists the calls gave to RunTool, called the calls.

\* Most calls of run_target in a session.
MaxCalls == 3

TargetNames == {"all", "flash"}

RunTargetInit ==
    /\ arg = <<>>
    /\ ret = <<>>
    /\ called = <<>>
    /\ NoSession

\* The index of a generator in GENERATORS.
GeneratorIndex(generator) == CHOOSE i \in 1..Len(GENERATORS) : GENERATORS[i] = generator

\* Lines 328-341: generator_cmd is the list of GENERATORS itself, not a copy,
\* and += appends the verbose flag to that list in place; RunTool is given
\* generator_cmd + [target_name].
run_target(target_name, generator, verbose) ==
    LET g == GeneratorIndex(generator)
        generator_cmd == IF verbose THEN Append(command[g], verbose_flag(generator))
                         ELSE command[g]
    IN /\ command' = [command EXCEPT ![g] = generator_cmd]
       /\ ret' = Append(ret, generator_cmd \o <<target_name>>)

RunTargetCall ==
    /\ Len(called) < MaxCalls
    /\ \E target_name \in TargetNames, i \in 1..Len(GENERATORS), verbose \in BOOLEAN :
           /\ run_target(target_name, GENERATORS[i], verbose)
           /\ called' = Append(called, [target_name |-> target_name,
                                        generator |-> GENERATORS[i],
                                        verbose |-> verbose])
    /\ UNCHANGED <<arg, runVars, cmakecache, build_dir, sdkconfig_txt, defaults_txt,
                   environ_target, on_path, sessionVars>>

RunTargetNext == RunTargetCall

RunTargetSpec == RunTargetInit /\ [][RunTargetNext]_vars

\* C25 (as stated): after any sequence of run_target calls the command of every
\* generator in GENERATORS is what it was, and each call launched the command
\* of its generator, then the verbose flag if the call was verbose, then the
\* target name.
C25_CommandTemplateUnchanged ==
    /\ \A i \in 1..Len(GENERATORS) : command[i] = GeneratorCommand(GENERATORS[i])
    /\ \A n \in 1..Len(ret) :
           ret[n] = GeneratorCommand(called[n].generator)
                    \o (IF called[n].verbose THEN <<verbose_flag(called[n].generator)>>
                        ELSE <<>>)
                    \o <<called[n].target_name>>

\* A call that was not verbose, after a verbose one, launched the command with
\* the verbose flag; and a third call launched it with two.
C25_FlagInLaterCall ==
    /\ Len(called) = 2
    /\ called[1].verbose /\ ~called[2].verbose
    /\ ret[2] = <<"ninja", "-v", "all">>

C25_FlagTwice ==
    /\ Len(called) = 2
    /\ ret[2] = <<"ninja", "-v", "-v", "all">>

====
